---- MODULE Spec2Model ----
(***************************************************************************)
(* A model of the Chipolata CHIP-8 / CHIP-48 / SUPER-CHIP 1.1 interpreter: *)
(* the Processor (src/src/processor.rs, src/src/processor/execute.rs) with *)
(* its Memory, Stack and KeyState components and the instruction decoder.  *)
(*                                                                         *)
(* One Processor is built by initialise_and_load and then driven by its    *)
(* host through the public API: execute_cycle, set_key_status,             *)
(* set_processor_speed and export_state_snapshot.  Every API call is one   *)
(* action; what the call returned is kept in `returned`.                   *)
(***************************************************************************)
EXTENDS Integers, Sequences, FiniteSets, TLC

VARIABLES
    (* Processor fields, src/src/processor.rs:94-117 *)
    status,                 \* ProcessorStatus
    cycles,                 \* number of execute_cycle calls so far
    program_counter,        \* u16
    index_register,         \* u16
    variable_registers,     \* [0..15 -> u8]
    delay_timer,            \* u8
    sound_timer,            \* u8
    stack,                  \* Stack: bytes, pointer, stack_size_limit
    memory,                 \* Memory: bytes (as cells + fill), address_limit
    keystate,               \* KeyState.keys_pressed: [0..15 -> BOOLEAN]
    processor_speed_hertz,  \* u64
    emulation_level,        \* EmulationLevel with its flags
    program,                \* Program.program_data, a sequence of bytes
    program_start_address,  \* usize
    frame_buffer,           \* Display
    high_resolution_mode,   \* bool
    rpl_registers,          \* [0..7 -> u8]
    last_timer_decrement,   \* microseconds since the timers were decremented
    last_execution_cycle_complete, \* microseconds the last cycle was paced to
    (* The host's position and what it last got back *)
    phase,                  \* "constructing", "ready", "failed" or "aborted"
    overflow_checks,        \* build profile: TRUE when integer overflow panics
    returned,               \* the value returned by the most recent call
    exported,               \* the StateSnapshot the host holds, if any
    (* History of the key events seen during an FX0A wait *)
    pressed_in_wait,        \* keys pressed since the wait began
    released_in_wait,       \* of those, the keys released again since
    (* History of the subroutine calls *)
    open_calls,             \* the calls not yet returned from, oldest first
    (* The host application, src/src/main.rs *)
    message_to_chipolata,   \* the channel from the UI to the worker thread
    message_from_chipolata, \* the channel from the worker thread to the UI
    app                     \* ChipolataApp and the worker thread's locals

vars == << status, cycles, program_counter, index_register, variable_registers,
           delay_timer, sound_timer, stack, memory, keystate,
           processor_speed_hertz, emulation_level, program,
           program_start_address, frame_buffer, high_resolution_mode,
           rpl_registers, last_timer_decrement,
           last_execution_cycle_complete, phase, overflow_checks,
           returned, exported,
           pressed_in_wait, released_in_wait, open_calls,
           message_to_chipolata, message_from_chipolata, app >>

\* the variables of the host application
channel_vars == << message_to_chipolata, message_from_chipolata, app >>

-----------------------------------------------------------------------------
(* Bounds of the model *)

\* The host stops calling execute_cycle once the cycle counter reaches its
\* budget: MaxCycles for the program that fills the stack, MaxShortCycles
\* for every other program
MaxCycles == 18
MaxShortCycles == 6

-----------------------------------------------------------------------------
(* Program constants *)

DEFAULT_FONT_ADDRESS == 80                      \* 0x50
VARIABLE_REGISTER_COUNT == 16
NUMBER_OF_KEYS == 16
CHIPOLATA_STACK_DEPTH == 16
CHIP8_STACK_DEPTH == 12
CHIP48_STACK_DEPTH == 16
SUPERCHIP11_STACK_DEPTH == 16
CHIPOLATA_MEMORY_SIZE_BYTES == 4096             \* 0x1000
CHIP8_SMALL_ADDRESSABLE_MEMORY_BYTES == 1696    \* 0x6A0
CHIP8_LARGE_ADDRESSABLE_MEMORY_BYTES == 3744    \* 0xEA0
CHIP48_ADDRESSABLE_MEMORY_BYTES == 4096         \* 0x1000
SUPERCHIP11_ADDRESSABLE_MEMORY_BYTES == 4095    \* 0xFFF
DEFAULT_PROCESSOR_SPEED_HERTZ == 1000
COSMAC_VIP_PROCESSOR_SPEED_HERTZ == 1760900
DEFAULT_PROGRAM_ADDRESS == 512                  \* 0x200
CHIP8_CHAR_SIZE == 5
RPL_REGISTER_COUNT == 8

\* the number of u8 and of u16 values
U8 == 2 ^ 8
U16 == 2 ^ 16

CHIP8_FONT_DATA ==
    << 240, 144, 144, 144, 240,   32,  96,  32,  32, 112,
       240,  16, 240, 128, 240,  240,  16, 240,  16, 240,
       144, 144, 240,  16,  16,  240, 128, 240,  16, 240,
       240, 128, 240, 144, 240,  240,  16,  32,  64,  64,
       240, 144, 240, 144, 240,  240, 144, 240,  16, 240,
       240, 144, 240, 144, 144,  224, 144, 224, 144, 224,
       240, 128, 128, 128, 240,  224, 144, 144, 144, 224,
       240, 128, 240, 128, 240,  240, 128, 240, 128, 128 >>

-----------------------------------------------------------------------------
(* Bit operations on unsigned integers *)

RECURSIVE BitAnd(_, _)
BitAnd(a, b) ==
    IF a = 0 \/ b = 0 THEN 0
    ELSE (a % 2) * (b % 2) + 2 * BitAnd(a \div 2, b \div 2)

RECURSIVE BitOr(_, _)
BitOr(a, b) ==
    IF a = 0 THEN b
    ELSE IF b = 0 THEN a
    ELSE (IF a % 2 = 1 \/ b % 2 = 1 THEN 1 ELSE 0)
         + 2 * BitOr(a \div 2, b \div 2)

RECURSIVE BitXor(_, _)
BitXor(a, b) ==
    IF a = 0 THEN b
    ELSE IF b = 0 THEN a
    ELSE ((a + b) % 2) + 2 * BitXor(a \div 2, b \div 2)

-----------------------------------------------------------------------------
(* Errors (ErrorDetail) and the results of fallible operations *)

NoError == [kind |-> "None", address |-> -1, opcode |-> -1, key |-> -1]

PopEmptyStack == [NoError EXCEPT !.kind = "PopEmptyStack"]

PushFullStack == [NoError EXCEPT !.kind = "PushFullStack"]

OperandsOutOfBounds == [NoError EXCEPT !.kind = "OperandsOutOfBounds"]

\* the error carrying the offending address, truncated to u16 as the code does
MemoryAddressOutOfBounds(address) ==
    [NoError EXCEPT !.kind = "MemoryAddressOutOfBounds",
                    !.address = address % U16]

\* the address-less form returned by load_font_data and load_program
MemoryAddressOutOfBoundsBare ==
    [NoError EXCEPT !.kind = "MemoryAddressOutOfBounds"]

UnknownInstruction(opcode) ==
    [NoError EXCEPT !.kind = "UnknownInstruction", !.opcode = opcode]

UnimplementedInstruction(opcode) ==
    [NoError EXCEPT !.kind = "UnimplementedInstruction", !.opcode = opcode]

InvalidKey(key) == [NoError EXCEPT !.kind = "InvalidKey", !.key = key]

-----------------------------------------------------------------------------
(* Memory, src/src/memory.rs.  The byte array is kept as the cells written *)
(* so far over a uniform fill: bytes[a] is cells[a] when a was written and *)
(* fill otherwise.                                                         *)

MemoryBytes(m, a) == IF a \in DOMAIN m.cells THEN m.cells[a] ELSE m.fill

\* Memory::new for one initial fill of the backing store
MemoryNew(level, fill) ==
    [ cells |-> << >>,
      fill |-> IF level.level = "SuperChip11" THEN fill ELSE 0,
      address_limit |->
          CASE level.level = "Chip8" /\ level.memory_limit_2k
                   -> CHIP8_SMALL_ADDRESSABLE_MEMORY_BYTES
            [] level.level = "Chip8" -> CHIP8_LARGE_ADDRESSABLE_MEMORY_BYTES
            [] level.level = "Chip48" -> CHIP48_ADDRESSABLE_MEMORY_BYTES
            [] level.level = "SuperChip11"
                   -> SUPERCHIP11_ADDRESSABLE_MEMORY_BYTES ]

\* What a memory operation returns: outcome "ok", "err" or "panic", the
\* memory afterwards, the bytes read and the error
MemResult(outcome, m, data, err) ==
    [outcome |-> outcome, memory |-> m, data |-> data, err |-> err]

read_byte(m, address) ==
    IF address >= m.address_limit
    THEN MemResult("err", m, << >>, MemoryAddressOutOfBounds(address))
    ELSE MemResult("ok", m, << MemoryBytes(m, address) >>, NoError)

write_byte(m, address, value) ==
    IF address >= m.address_limit
    THEN MemResult("err", m, << >>, MemoryAddressOutOfBounds(address))
    ELSE MemResult("ok", [m EXCEPT !.cells = (address :> value) @@ @],
                   << >>, NoError)

\* start_address + num_bytes - 1 in usize.  The subtraction underflows when
\* both are zero: that panics with overflow checks, and without them wraps
\* to usize::MAX, which is beyond every limit and is 0xFFFF as a u16.  The
\* wrapped value is represented by U16 - 1 here.
FinalAddress(start_address, num_bytes) ==
    IF start_address + num_bytes = 0 THEN U16 - 1
    ELSE start_address + num_bytes - 1

read_bytes(m, start_address, num_bytes) ==
    LET final_address == FinalAddress(start_address, num_bytes) IN
    IF start_address + num_bytes = 0 /\ overflow_checks
    THEN MemResult("panic", m, << >>, NoError)
    ELSE IF final_address >= m.address_limit
    THEN MemResult("err", m, << >>, MemoryAddressOutOfBounds(final_address))
    ELSE MemResult("ok", m,
                   [i \in 1..num_bytes |-> MemoryBytes(m, start_address + i - 1)],
                   NoError)

read_two_bytes(m, start_address) ==
    IF start_address + 1 >= m.address_limit
    THEN IF (start_address % U16) + 1 >= U16 /\ overflow_checks
         THEN MemResult("panic", m, << >>, NoError)
         ELSE MemResult("err", m, << >>,
                        MemoryAddressOutOfBounds(1 + (start_address % U16)))
    ELSE MemResult("ok", m,
                   << MemoryBytes(m, start_address) * 256
                      + MemoryBytes(m, start_address + 1) >>,
                   NoError)

write_bytes(m, start_address, bytes_to_write) ==
    LET final_address == FinalAddress(start_address, Len(bytes_to_write)) IN
    IF start_address + Len(bytes_to_write) = 0 /\ overflow_checks
    THEN MemResult("panic", m, << >>, NoError)
    ELSE IF final_address >= m.address_limit
    THEN MemResult("err", m, << >>, MemoryAddressOutOfBounds(final_address))
    ELSE MemResult("ok",
                   [m EXCEPT !.cells =
                       [a \in start_address..final_address
                           |-> bytes_to_write[a - start_address + 1]] @@ @],
                   << >>, NoError)

max_addressable_size(m) == m.address_limit

-----------------------------------------------------------------------------
(* Stack, src/src/stack.rs *)

StackNew(level) ==
    [ bytes |-> [i \in 0..(CHIPOLATA_STACK_DEPTH - 1) |-> 0],
      pointer |-> 0,
      stack_size_limit |->
          CASE level.level = "Chip8" -> CHIP8_STACK_DEPTH
            [] level.level = "Chip48" -> CHIP48_STACK_DEPTH
            [] level.level = "SuperChip11" -> SUPERCHIP11_STACK_DEPTH ]

\* What push and pop return: the stack afterwards, the popped value, the error
StackResult(ok, s, value, err) ==
    [ok |-> ok, stack |-> s, value |-> value, err |-> err]

\* push with the limit test off by one
push_past_limit(s, value) ==
    IF s.pointer > s.stack_size_limit
    THEN StackResult(FALSE, s, 0, PushFullStack)
    ELSE StackResult(TRUE,
                     [s EXCEPT !.bytes = (s.pointer :> value) @@ @,
                               !.pointer = s.pointer + 1],
                     0, NoError)

push(s, value) ==
    IF s.pointer >= s.stack_size_limit
    THEN StackResult(FALSE, s, 0, PushFullStack)
    ELSE StackResult(TRUE,
                     [s EXCEPT !.bytes[s.pointer] = value,
                               !.pointer = s.pointer + 1],
                     0, NoError)

\* pop that answers the oldest entry of the stack instead of the newest
pop_oldest_first(s) ==
    IF s.pointer <= 0
    THEN StackResult(FALSE, s, 0, PopEmptyStack)
    ELSE StackResult(TRUE, [s EXCEPT !.pointer = s.pointer - 1],
                     s.bytes[0], NoError)

\* pop that answers 0 from an empty stack instead of failing
pop_ignoring_empty(s) ==
    IF s.pointer <= 0
    THEN StackResult(TRUE, s, 0, NoError)
    ELSE StackResult(TRUE, [s EXCEPT !.pointer = s.pointer - 1],
                     s.bytes[s.pointer - 1], NoError)

pop(s) ==
    IF s.pointer <= 0
    THEN StackResult(FALSE, s, 0, PopEmptyStack)
    ELSE StackResult(TRUE, [s EXCEPT !.pointer = s.pointer - 1],
                     s.bytes[s.pointer - 1], NoError)

-----------------------------------------------------------------------------
(* KeyState, src/src/keystate.rs *)

KeyStateNew == [k \in 0..(NUMBER_OF_KEYS - 1) |-> FALSE]

\* What the key operations return: the key state afterwards, the answer
KeyResult(ok, ks, pressed, err) ==
    [ok |-> ok, keystate |-> ks, pressed |-> pressed, err |-> err]

is_key_pressed(ks, key) ==
    IF key < NUMBER_OF_KEYS
    THEN KeyResult(TRUE, ks, ks[key], NoError)
    ELSE KeyResult(FALSE, ks, FALSE, InvalidKey(key))

\* set_key_status that takes the number of keys for a key
KeyState_set_key_status_to_sixteen(ks, key, pressed) ==
    IF key <= NUMBER_OF_KEYS
    THEN KeyResult(TRUE, [ks EXCEPT ![key] = pressed], FALSE, NoError)
    ELSE KeyResult(FALSE, ks, FALSE, InvalidKey(key))

KeyState_set_key_status(ks, key, pressed) ==
    IF key < NUMBER_OF_KEYS
    THEN KeyResult(TRUE, [ks EXCEPT ![key] = pressed], FALSE, NoError)
    ELSE KeyResult(FALSE, ks, FALSE, InvalidKey(key))

\* the pressed keys in ascending order; the empty sequence stands for None
RECURSIVE KeysFrom(_, _)
KeysFrom(ks, i) ==
    IF i >= NUMBER_OF_KEYS THEN << >>
    ELSE (IF is_key_pressed(ks, i).pressed THEN << i >> ELSE << >>)
         \o KeysFrom(ks, i + 1)

get_keys_pressed(ks) == KeysFrom(ks, 0)

-----------------------------------------------------------------------------
(* Instruction decoder, src/src/instruction.rs *)

\* An instruction: its variant and the operand fields cut from the opcode
Instr(op, opcode) ==
    [ op |-> op,
      nnn |-> opcode % 4096,
      nn |-> opcode % 256,
      x |-> (opcode \div 256) % 16,
      y |-> (opcode \div 16) % 16,
      n |-> opcode % 16 ]

\* The arms of decode_from for a first nibble of 0, in match order
DecodeZero(n2, n3, n4) ==
    IF n2 = 0 /\ n3 = 4 /\ n4 = 11 THEN "Op004B"
    ELSE IF n2 = 0 /\ n3 = 12 THEN "Op00CN"
    ELSE IF n2 = 0 /\ n3 = 14 /\ n4 = 0 THEN "Op00E0"
    ELSE IF n2 = 0 /\ n3 = 14 /\ n4 = 14 THEN "Op00EE"
    ELSE IF n2 = 0 /\ n3 = 15 /\ n4 = 11 THEN "Op00FB"
    ELSE IF n2 = 0 /\ n3 = 15 /\ n4 = 12 THEN "Op00FC"
    ELSE IF n2 = 0 /\ n3 = 15 /\ n4 = 13 THEN "Op00FD"
    ELSE IF n2 = 0 /\ n3 = 15 /\ n4 = 14 THEN "Op00FE"
    ELSE IF n2 = 0 /\ n3 = 15 /\ n4 = 15 THEN "Op00FF"
    ELSE "Op0NNN"

\* The variant decode_from matches for the four nibbles, "" when none does
DecodeVariant(n1, n2, n3, n4) ==
    CASE n1 = 0 -> DecodeZero(n2, n3, n4)
      [] n1 = 1 -> "Op1NNN"
      [] n1 = 2 -> "Op2NNN"
      [] n1 = 3 -> "Op3XNN"
      [] n1 = 4 -> "Op4XNN"
      [] n1 = 5 -> "Op5XY0"
      [] n1 = 6 -> "Op6XNN"
      [] n1 = 7 -> "Op7XNN"
      [] n1 = 8 /\ n4 = 0 -> "Op8XY0"
      [] n1 = 8 /\ n4 = 1 -> "Op8XY1"
      [] n1 = 8 /\ n4 = 2 -> "Op8XY2"
      [] n1 = 8 /\ n4 = 3 -> "Op8XY3"
      [] n1 = 8 /\ n4 = 4 -> "Op8XY4"
      [] n1 = 8 /\ n4 = 5 -> "Op8XY5"
      [] n1 = 8 /\ n4 = 6 -> "Op8XY6"
      [] n1 = 8 /\ n4 = 7 -> "Op8XY7"
      [] n1 = 8 /\ n4 = 14 -> "Op8XYE"
      [] n1 = 9 -> "Op9XY0"
      [] n1 = 10 -> "OpANNN"
      [] n1 = 11 -> "OpBNNN"
      [] n1 = 12 -> "OpCXNN"
      [] n1 = 13 -> "OpDXYN"
      [] n1 = 14 /\ n3 = 9 /\ n4 = 14 -> "OpEX9E"
      [] n1 = 14 /\ n3 = 10 /\ n4 = 1 -> "OpEXA1"
      [] n1 = 15 /\ n3 = 0 /\ n4 = 7 -> "OpFX07"
      [] n1 = 15 /\ n3 = 1 /\ n4 = 5 -> "OpFX15"
      [] n1 = 15 /\ n3 = 1 /\ n4 = 8 -> "OpFX18"
      [] n1 = 15 /\ n3 = 1 /\ n4 = 14 -> "OpFX1E"
      [] n1 = 15 /\ n3 = 0 /\ n4 = 10 -> "OpFX0A"
      [] n1 = 15 /\ n3 = 2 /\ n4 = 9 -> "OpFX29"
      [] n1 = 15 /\ n3 = 3 /\ n4 = 0 -> "OpFX30"
      [] n1 = 15 /\ n3 = 3 /\ n4 = 3 -> "OpFX33"
      [] n1 = 15 /\ n3 = 5 /\ n4 = 5 -> "OpFX55"
      [] n1 = 15 /\ n3 = 6 /\ n4 = 5 -> "OpFX65"
      [] n1 = 15 /\ n3 = 7 /\ n4 = 5 -> "OpFX75"
      [] n1 = 15 /\ n3 = 8 /\ n4 = 5 -> "OpFX85"
      [] OTHER -> ""

\* What decode_from returns: the instruction, or UnknownInstruction
decode_from(opcode) ==
    LET variant == DecodeVariant(opcode \div 4096, (opcode \div 256) % 16,
                                 (opcode \div 16) % 16, opcode % 16) IN
    IF variant = ""
    THEN [ok |-> FALSE, instr |-> Instr("", opcode),
          err |-> UnknownInstruction(opcode)]
    ELSE [ok |-> TRUE, instr |-> Instr(variant, opcode), err |-> NoError]

-----------------------------------------------------------------------------
(* Instruction handlers, src/src/processor/execute.rs.  A handler takes the  *)
(* Processor p (a record of its fields) and returns the Processor afterwards *)
(* with Ok, Err(e) or a panic.  The u64 a handler returns on success is a    *)
(* cycle count used for pacing only; it never reaches the Processor's state  *)
(* and is left out.                                                          *)

Ok(p) == [outcome |-> "ok", p |-> p, err |-> NoError]

Err(p, e) == [outcome |-> "err", p |-> p, err |-> e]

Panic(p) == [outcome |-> "panic", p |-> p, err |-> NoError]

IsSuperChip11(p) == p.emulation_level.level = "SuperChip11"

IsChip8(p) == p.emulation_level.level = "Chip8"

execute_004B(p) == Err(p, UnimplementedInstruction(75))

execute_00EE(p) ==
    LET r == pop(p.stack) IN
    IF ~r.ok THEN Err(p, r.err)
    ELSE Ok([p EXCEPT !.stack = r.stack, !.program_counter = r.value])

execute_00FD(p) ==
    IF IsSuperChip11(p) THEN Ok([p EXCEPT !.status = "Completed"])
    ELSE Err(p, UnknownInstruction(253))

execute_00FE(p) ==
    IF IsSuperChip11(p) THEN Ok([p EXCEPT !.high_resolution_mode = FALSE])
    ELSE Err(p, UnknownInstruction(254))

execute_00FF(p) ==
    IF IsSuperChip11(p) THEN Ok([p EXCEPT !.high_resolution_mode = TRUE])
    ELSE Err(p, UnknownInstruction(255))

execute_0NNN(p, nnn) == Err(p, UnimplementedInstruction(nnn))

execute_1NNN(p, nnn) == Ok([p EXCEPT !.program_counter = nnn])

execute_2NNN(p, nnn) ==
    LET r == push(p.stack, p.program_counter) IN
    IF ~r.ok THEN Err(p, r.err)
    ELSE Ok([p EXCEPT !.stack = r.stack, !.program_counter = nnn])

\* the skip shared by 3XNN, 4XNN, 5XY0, 9XY0: program_counter += 2 when taken
Skip(p, taken) ==
    Ok(IF taken THEN [p EXCEPT !.program_counter = @ + 2] ELSE p)

execute_3XNN(p, x, nn) ==
    IF x >= VARIABLE_REGISTER_COUNT THEN Err(p, OperandsOutOfBounds)
    ELSE Skip(p, p.variable_registers[x] = nn)

execute_4XNN(p, x, nn) ==
    IF x >= VARIABLE_REGISTER_COUNT THEN Err(p, OperandsOutOfBounds)
    ELSE Skip(p, p.variable_registers[x] # nn)

execute_5XY0(p, x, y) ==
    IF x >= VARIABLE_REGISTER_COUNT \/ y >= VARIABLE_REGISTER_COUNT
    THEN Err(p, OperandsOutOfBounds)
    ELSE Skip(p, p.variable_registers[x] = p.variable_registers[y])

execute_6XNN(p, x, nn) ==
    IF x >= VARIABLE_REGISTER_COUNT THEN Err(p, OperandsOutOfBounds)
    ELSE Ok([p EXCEPT !.variable_registers[x] = nn])

execute_7XNN(p, x, nn) ==
    IF x >= VARIABLE_REGISTER_COUNT THEN Err(p, OperandsOutOfBounds)
    ELSE Ok([p EXCEPT !.variable_registers[x] = (@ + nn) % U8])

execute_8XY0(p, x, y) ==
    IF x >= VARIABLE_REGISTER_COUNT \/ y >= VARIABLE_REGISTER_COUNT
    THEN Err(p, OperandsOutOfBounds)
    ELSE Ok([p EXCEPT !.variable_registers[x] = p.variable_registers[y]])


\* Logic with VF cleared at every emulation level
Logic_clearing_VF_at_every_level(p, x, y, value) ==
    IF x >= VARIABLE_REGISTER_COUNT \/ y >= VARIABLE_REGISTER_COUNT
    THEN Err(p, OperandsOutOfBounds)
    ELSE LET v1 == [p.variable_registers EXCEPT ![x] = value] IN
         Ok([p EXCEPT !.variable_registers = [v1 EXCEPT ![15] = 0]])

\* 8XY1, 8XY2, 8XY3: Vx := value, and then VF := 0 under Chip8
Logic(p, x, y, value) ==
    IF x >= VARIABLE_REGISTER_COUNT \/ y >= VARIABLE_REGISTER_COUNT
    THEN Err(p, OperandsOutOfBounds)
    ELSE LET v1 == [p.variable_registers EXCEPT ![x] = value] IN
         Ok([p EXCEPT !.variable_registers =
                 IF IsChip8(p) THEN [v1 EXCEPT ![15] = 0] ELSE v1])

execute_8XY1(p, x, y) ==
    Logic(p, x, y, BitOr(p.variable_registers[x], p.variable_registers[y]))

execute_8XY2(p, x, y) ==
    Logic(p, x, y, BitAnd(p.variable_registers[x], p.variable_registers[y]))

execute_8XY3(p, x, y) ==
    Logic(p, x, y, BitXor(p.variable_registers[x], p.variable_registers[y]))

\* 8XY4, 8XY5, 8XY7: VF := flag first, and then Vx := value
Arith(p, x, y, flag, value) ==
    IF x >= VARIABLE_REGISTER_COUNT \/ y >= VARIABLE_REGISTER_COUNT
    THEN Err(p, OperandsOutOfBounds)
    ELSE LET v1 == [p.variable_registers EXCEPT ![15] = flag] IN
         Ok([p EXCEPT !.variable_registers = [v1 EXCEPT ![x] = value]])

execute_8XY4(p, x, y) ==
    LET result == p.variable_registers[x] + p.variable_registers[y] IN
    Arith(p, x, y, IF result > 255 THEN 1 ELSE 0, result % U8)

execute_8XY5(p, x, y) ==
    LET result == p.variable_registers[x] - p.variable_registers[y] IN
    Arith(p, x, y, IF result < 0 THEN 0 ELSE 1, (result + U8) % U8)

execute_8XY7(p, x, y) ==
    LET result == p.variable_registers[y] - p.variable_registers[x] IN
    Arith(p, x, y, IF result < 0 THEN 0 ELSE 1, (result + U8) % U8)

\* Shift with Vy copied into Vx at every emulation level
Shift_copying_at_every_level(p, x, y, left) ==
    IF x >= VARIABLE_REGISTER_COUNT \/ y >= VARIABLE_REGISTER_COUNT
    THEN Err(p, OperandsOutOfBounds)
    ELSE LET v1 == [p.variable_registers EXCEPT ![x] = p.variable_registers[y]]
             flag_value == IF left THEN v1[x] \div 128 ELSE v1[x] % 2
             v2 == [v1 EXCEPT ![x] = IF left THEN (@ * 2) % U8 ELSE @ \div 2]
         IN  Ok([p EXCEPT !.variable_registers = [v2 EXCEPT ![15] = flag_value]])

\* 8XY6, 8XYE: Vx := Vy under Chip8, then the shift, and VF := flag last
Shift(p, x, y, left) ==
    IF x >= VARIABLE_REGISTER_COUNT \/ y >= VARIABLE_REGISTER_COUNT
    THEN Err(p, OperandsOutOfBounds)
    ELSE LET v1 == IF IsChip8(p)
                   THEN [p.variable_registers EXCEPT ![x] = p.variable_registers[y]]
                   ELSE p.variable_registers
             flag_value == IF left THEN v1[x] \div 128 ELSE v1[x] % 2
             v2 == [v1 EXCEPT ![x] = IF left THEN (@ * 2) % U8 ELSE @ \div 2]
         IN  Ok([p EXCEPT !.variable_registers = [v2 EXCEPT ![15] = flag_value]])

execute_8XY6(p, x, y) == Shift(p, x, y, FALSE)

execute_8XYE(p, x, y) == Shift(p, x, y, TRUE)

execute_9XY0(p, x, y) ==
    IF x >= VARIABLE_REGISTER_COUNT \/ y >= VARIABLE_REGISTER_COUNT
    THEN Err(p, OperandsOutOfBounds)
    ELSE Skip(p, p.variable_registers[x] # p.variable_registers[y])

execute_ANNN(p, nnn) == Ok([p EXCEPT !.index_register = nnn])

\* BNNN with V0 as the offset at every emulation level
execute_BNNN_by_V0_at_every_level(p, nnn) ==
    Ok([p EXCEPT !.program_counter = nnn + p.variable_registers[0]])

execute_BNNN(p, nnn) ==
    Ok([p EXCEPT !.program_counter =
           IF IsChip8(p) THEN nnn + p.variable_registers[0]
           ELSE nnn + p.variable_registers[(nnn \div 256) % 16]])

\* rand is the byte the random number generator yields
execute_CXNN(p, x, nn, rand) ==
    IF x >= VARIABLE_REGISTER_COUNT THEN Err(p, OperandsOutOfBounds)
    ELSE Ok([p EXCEPT !.variable_registers[x] = BitAnd(nn, rand)])

-----------------------------------------------------------------------------
(* Display, src/src/display.rs.  The pixel bytes are kept sparsely: pixels *)
(* maps the index of every non-zero byte to its value.                      *)

LOW_RES_ROW_SIZE_PIXELS == 64
LOW_RES_COLUMN_SIZE_PIXELS == 32
HIGH_RES_ROW_SIZE_PIXELS == 128
HIGH_RES_COLUMN_SIZE_PIXELS == 64

Min(a, b) == IF a < b THEN a ELSE b

DisplayNew(level) ==
    [ row_size_bytes |-> IF level.level = "SuperChip11"
                         THEN HIGH_RES_ROW_SIZE_PIXELS \div 8
                         ELSE LOW_RES_ROW_SIZE_PIXELS \div 8,
      column_size_pixels |-> IF level.level = "SuperChip11"
                             THEN HIGH_RES_COLUMN_SIZE_PIXELS
                             ELSE LOW_RES_COLUMN_SIZE_PIXELS,
      pixels |-> << >> ]

\* display[row][col]
DisplayByte(d, row, col) ==
    LET i == row * d.row_size_bytes + col IN
    IF i \in DOMAIN d.pixels THEN d.pixels[i] ELSE 0


\* display[row][col] |= sprite_byte
XorByte_setting_the_bits(d, row, col, sprite_byte) ==
    LET i == row * d.row_size_bytes + col
        value == BitOr(DisplayByte(d, row, col), sprite_byte)
    IN  [d EXCEPT !.pixels =
            IF value = 0 THEN [k \in DOMAIN @ \ {i} |-> @[k]]
            ELSE (i :> value) @@ @]

\* display[row][col] ^= sprite_byte
XorByte(d, row, col, sprite_byte) ==
    LET i == row * d.row_size_bytes + col
        value == BitXor(DisplayByte(d, row, col), sprite_byte)
    IN  [d EXCEPT !.pixels =
            IF value = 0 THEN [k \in DOMAIN @ \ {i} |-> @[k]]
            ELSE (i :> value) @@ @]

\* the rows and the byte columns of the display
DisplayRows(d) == 0..(d.column_size_pixels - 1)

DisplayColumns(d) == 0..(d.row_size_bytes - 1)

\* the display holding the bytes at[row][col]
WithPixels(d, at) ==
    LET size == d.row_size_bytes * d.column_size_pixels
        RowOf(i) == i \div d.row_size_bytes
        ColOf(i) == i % d.row_size_bytes
    IN  [d EXCEPT !.pixels =
            [i \in {k \in 0..(size - 1) : at[RowOf(k)][ColOf(k)] # 0}
                |-> at[RowOf(i)][ColOf(i)]]]

clear(d) == [d EXCEPT !.pixels = << >>]


\* the row loop of draw_sprite counting every row it draws as a collision
RECURSIVE DrawRows_counting_every_row(_, _, _, _)
DrawRows_counting_every_row(d, j, rows_with_collisions, c) ==
    IF j >= c.pixel_rows_to_draw
    THEN [ display |-> d, rows_with_collisions |-> rows_with_collisions,
           rows_clipped |-> 0 ]
    ELSE
    LET byte_index == IF c.double_width_sprite THEN j * 2 ELSE j
        row == c.y_start_pixel + j
        first == c.sprite[byte_index + 1] \div (2 ^ c.x_offset)
        second ==
            BitOr(IF c.x_offset = 0 THEN 0
                  ELSE (c.sprite[byte_index + 1] * 2 ^ (8 - c.x_offset)) % U8,
                  IF c.double_width_sprite
                  THEN c.sprite[byte_index + 2] \div (2 ^ c.x_offset)
                  ELSE 0)
        third == (c.sprite[byte_index + 2] * 2 ^ (8 - c.x_offset)) % U8
        d1 == XorByte(d, row, c.x_byte, first)
        d2 == IF c.second_byte_needed
              THEN XorByte(d1, row, c.x_byte + 1, second) ELSE d1
        d3 == IF c.third_byte_needed
              THEN XorByte(d2, row, c.x_byte + 2, third) ELSE d2
    IN  DrawRows_counting_every_row(d3, j + 1, rows_with_collisions + 1, c)


\* the row loop of draw_sprite counting a collision for every byte that
\* collides instead of one for the row
RECURSIVE DrawRows_counting_bytes(_, _, _, _)
DrawRows_counting_bytes(d, j, rows_with_collisions, c) ==
    IF j >= c.pixel_rows_to_draw
    THEN [ display |-> d, rows_with_collisions |-> rows_with_collisions,
           rows_clipped |-> 0 ]
    ELSE
    LET byte_index == IF c.double_width_sprite THEN j * 2 ELSE j
        row == c.y_start_pixel + j
        first == c.sprite[byte_index + 1] \div (2 ^ c.x_offset)
        second ==
            BitOr(IF c.x_offset = 0 THEN 0
                  ELSE (c.sprite[byte_index + 1] * 2 ^ (8 - c.x_offset)) % U8,
                  IF c.double_width_sprite
                  THEN c.sprite[byte_index + 2] \div (2 ^ c.x_offset)
                  ELSE 0)
        third == (c.sprite[byte_index + 2] * 2 ^ (8 - c.x_offset)) % U8
        hit1 == BitAnd(DisplayByte(d, row, c.x_byte), first) > 0
        d1 == XorByte(d, row, c.x_byte, first)
        hit2 == c.second_byte_needed
                /\ BitAnd(DisplayByte(d1, row, c.x_byte + 1), second) > 0
        d2 == IF c.second_byte_needed
              THEN XorByte(d1, row, c.x_byte + 1, second) ELSE d1
        hit3 == c.third_byte_needed
                /\ BitAnd(DisplayByte(d2, row, c.x_byte + 2), third) > 0
        d3 == IF c.third_byte_needed
              THEN XorByte(d2, row, c.x_byte + 2, third) ELSE d2
    IN  DrawRows_counting_bytes(d3, j + 1,
            rows_with_collisions + (IF hit1 THEN 1 ELSE 0)
                + (IF hit2 THEN 1 ELSE 0) + (IF hit3 THEN 1 ELSE 0),
            c)

\* One pass of the row loop of draw_sprite and the passes after it.  c holds
\* the values fixed before the loop; the result is what draw_sprite returns:
\* the display and (rows_with_collisions, rows_clipped).
RECURSIVE DrawRows(_, _, _, _)
DrawRows(d, j, rows_with_collisions, c) ==
    IF j >= c.pixel_rows_to_draw
    THEN [ display |-> d, rows_with_collisions |-> rows_with_collisions,
           rows_clipped |-> 0 ]
    ELSE
    LET byte_index == IF c.double_width_sprite THEN j * 2 ELSE j
        row == c.y_start_pixel + j
        first == c.sprite[byte_index + 1] \div (2 ^ c.x_offset)
        second ==
            BitOr(IF c.x_offset = 0 THEN 0
                  ELSE (c.sprite[byte_index + 1] * 2 ^ (8 - c.x_offset)) % U8,
                  IF c.double_width_sprite
                  THEN c.sprite[byte_index + 2] \div (2 ^ c.x_offset)
                  ELSE 0)
        third == (c.sprite[byte_index + 2] * 2 ^ (8 - c.x_offset)) % U8
        hit1 == BitAnd(DisplayByte(d, row, c.x_byte), first) > 0
        d1 == XorByte(d, row, c.x_byte, first)
        hit2 == c.second_byte_needed
                /\ BitAnd(DisplayByte(d1, row, c.x_byte + 1), second) > 0
        d2 == IF c.second_byte_needed
              THEN XorByte(d1, row, c.x_byte + 1, second) ELSE d1
        hit3 == c.third_byte_needed
                /\ BitAnd(DisplayByte(d2, row, c.x_byte + 2), third) > 0
        d3 == IF c.third_byte_needed
              THEN XorByte(d2, row, c.x_byte + 2, third) ELSE d2
    IN  DrawRows(d3, j + 1,
                 IF hit1 \/ hit2 \/ hit3 THEN rows_with_collisions + 1
                 ELSE rows_with_collisions,
                 c)


\* second_byte_needed wherever the sprite starts: the byte after the last of a
\* row is the first of the next
second_byte_needed_past_the_last_byte(d, x_offset, x_byte, double_width_sprite) ==
    IF double_width_sprite THEN TRUE ELSE x_offset > 0

\* second_byte_needed: the sprite spills over into the next byte of the
\* display row, which it never does from the last byte of the row
second_byte_needed(d, x_offset, x_byte, double_width_sprite) ==
    IF double_width_sprite THEN x_byte # d.row_size_bytes - 1
    ELSE x_offset > 0 /\ x_byte < d.row_size_bytes - 1

\* draw_sprite returning the rows it clipped: sprite_height less the rows drawn
draw_sprite_counting_clipped_rows(d, x_start_pixel, y_start_pixel, sprite, double_width_sprite) ==
    LET sprite_height == IF double_width_sprite THEN Len(sprite) \div 2
                         ELSE Len(sprite)
        y_start == y_start_pixel % d.column_size_pixels
        x_offset == x_start_pixel % 8
        x_byte == (x_start_pixel \div 8) % d.row_size_bytes
        pixel_rows_to_draw ==
            Min(sprite_height,
                d.column_size_pixels - Min(d.column_size_pixels, y_start))
    IN  [ DrawRows(d, 0, 0,
            [ sprite |-> sprite,
              double_width_sprite |-> double_width_sprite,
              y_start_pixel |-> y_start,
              pixel_rows_to_draw |-> pixel_rows_to_draw,
              x_offset |-> x_offset,
              x_byte |-> x_byte,
              second_byte_needed |->
                  second_byte_needed(d, x_offset, x_byte, double_width_sprite),
              third_byte_needed |->
                  double_width_sprite /\ x_offset > 0
                  /\ x_byte < d.row_size_bytes - 2 ])
          EXCEPT !.rows_clipped = sprite_height - pixel_rows_to_draw ]

\* draw_sprite: the display afterwards and (rows_with_collisions, rows_clipped)
draw_sprite(d, x_start_pixel, y_start_pixel, sprite, double_width_sprite) ==
    LET sprite_height == IF double_width_sprite THEN Len(sprite) \div 2
                         ELSE Len(sprite)
        y_start == y_start_pixel % d.column_size_pixels
        x_offset == x_start_pixel % 8
        x_byte == (x_start_pixel \div 8) % d.row_size_bytes
    IN  DrawRows(d, 0, 0,
            [ sprite |-> sprite,
              double_width_sprite |-> double_width_sprite,
              y_start_pixel |-> y_start,
              pixel_rows_to_draw |->
                  Min(sprite_height,
                      d.column_size_pixels - Min(d.column_size_pixels, y_start)),
              x_offset |-> x_offset,
              x_byte |-> x_byte,
              second_byte_needed |->
                  second_byte_needed(d, x_offset, x_byte, double_width_sprite),
              third_byte_needed |->
                  double_width_sprite /\ x_offset > 0
                  /\ x_byte < d.row_size_bytes - 2 ])

scroll_display_right(d) ==
    WithPixels(d,
        [row \in DisplayRows(d) |-> [col \in DisplayColumns(d) |->
            IF col = 0 THEN DisplayByte(d, row, 0) \div 16
            ELSE BitOr(DisplayByte(d, row, col) \div 16,
                       (DisplayByte(d, row, col - 1) * 16) % U8)]])

scroll_display_left(d) ==
    WithPixels(d,
        [row \in DisplayRows(d) |-> [col \in DisplayColumns(d) |->
            IF col = d.row_size_bytes - 1
            THEN (DisplayByte(d, row, col) * 16) % U8
            ELSE BitOr((DisplayByte(d, row, col) * 16) % U8,
                       DisplayByte(d, row, col + 1) \div 16)]])

\* pixels.copy_within(the bytes of row from, the start of row to)
CopyRow(d, from, to) ==
    [d EXCEPT !.pixels =
        [i \in {k \in DOMAIN d.pixels : k \div d.row_size_bytes # to}
               \cup {to * d.row_size_bytes + col : col \in
                        {c \in DisplayColumns(d) : DisplayByte(d, from, c) # 0}}
           |-> IF i \div d.row_size_bytes = to
               THEN DisplayByte(d, from, i % d.row_size_bytes)
               ELSE d.pixels[i]]]

\* self[row].fill(0x00)
FillRow(d, row) ==
    [d EXCEPT !.pixels =
        [i \in {k \in DOMAIN d.pixels : k \div d.row_size_bytes # row}
           |-> d.pixels[i]]]

RECURSIVE ScrollRowsUpwards(_, _, _)
\* the rows from row_index to the last row, each set to the row n above it
ScrollRowsUpwards(d, row_index, n) ==
    IF row_index >= d.column_size_pixels THEN d
    ELSE ScrollRowsUpwards(CopyRow(d, row_index - n, row_index),
                           row_index + 1, n)

\* the rows of ScrollRows copied from the top of the display downwards
ScrollRows_from_the_top(d, row_index, n) == ScrollRowsUpwards(d, n, n)

RECURSIVE ScrollRows(_, _, _)
\* for row_index in (n..column_size_pixels).rev(): the rows from row_index
\* back to row n, each set to the row n above it
ScrollRows(d, row_index, n) ==
    IF row_index < n \/ row_index >= d.column_size_pixels THEN d
    ELSE ScrollRows(CopyRow(d, row_index - n, row_index), row_index - 1, n)

RECURSIVE FillRows(_, _, _)
\* for row_index in 0..n: the rows from row_index to n - 1 filled with 0
FillRows(d, row_index, n) ==
    IF row_index >= n THEN d
    ELSE FillRows(FillRow(d, row_index), row_index + 1, n)

scroll_display_down(d, n) ==
    FillRows(ScrollRows(d, d.column_size_pixels - 1, n), 0, n)

-----------------------------------------------------------------------------
(* Instruction handlers that use the display, the keys and the memory *)

MAX_SPRITE_HEIGHT == 15
SUPERCHIP11_CHAR_SIZE == 10
SUPERCHIP11_FONT_DATA_SIZE == 100

\* Processor.font_start_address, set to DEFAULT_FONT_ADDRESS on construction
font_start_address == DEFAULT_FONT_ADDRESS

\* Processor.high_resolution_font_start_address: the high-resolution font
\* follows the low-resolution font in memory
high_resolution_font_start_address ==
    DEFAULT_FONT_ADDRESS + Len(CHIP8_FONT_DATA)

\* execute_00CN without the match on the emulation level
execute_00CN_at_every_level(p, n) ==
    Ok([p EXCEPT !.frame_buffer = scroll_display_down(@, n)])

execute_00CN(p, n) ==
    IF IsSuperChip11(p)
    THEN Ok([p EXCEPT !.frame_buffer = scroll_display_down(@, n)])
    ELSE Err(p, UnknownInstruction(BitOr(192, n)))

execute_00E0(p) == Ok([p EXCEPT !.frame_buffer = clear(@)])

execute_00FB(p) ==
    IF IsSuperChip11(p)
    THEN Ok([p EXCEPT !.frame_buffer = scroll_display_right(@)])
    ELSE Err(p, UnknownInstruction(251))

execute_00FC(p) ==
    IF IsSuperChip11(p)
    THEN Ok([p EXCEPT !.frame_buffer = scroll_display_left(@)])
    ELSE Err(p, UnknownInstruction(252))

\* a failed read of the sprite, passed on by the ? operator
SpriteReadFailure(p, r) ==
    IF r.outcome = "panic" THEN Panic(p) ELSE Err(p, r.err)

\* the end of execute_DXYN_chip8: the display drawn and VF set
DrawnChip8(p, drawn) ==
    Ok([p EXCEPT
          !.frame_buffer = drawn.display,
          !.variable_registers[15] =
              IF IsSuperChip11(p) /\ p.high_resolution_mode
              THEN drawn.rows_with_collisions + drawn.rows_clipped
              ELSE IF drawn.rows_with_collisions > 0 THEN 1 ELSE 0])

execute_DXYN_chip8(p, x, y, n) ==
    LET r == read_bytes(p.memory, p.index_register, n) IN
    IF r.outcome # "ok" THEN SpriteReadFailure(p, r)
    ELSE DrawnChip8(p, draw_sprite(p.frame_buffer, p.variable_registers[x],
                                   p.variable_registers[y], r.data, FALSE))

\* y << bits on a u16
ShiftLeft16(y, bits) == (y * (2 ^ bits)) % U16

\* (y | (y << bits)) & mask on a u16
Spread(y, bits, mask) == BitAnd(BitOr(y, ShiftLeft16(y, bits)), mask)

\* the bytes ((y >> 8) as u8, (y & 0xFF) as u8) of a u16
BytePair(y) == << (y \div U8) % U8, BitAnd(y, 255) >>

\* duplicate_bits without its last step, y = y | (y << 1)
duplicate_bits_spread_only(byte) ==
    BytePair(Spread(Spread(Spread(byte, 4, 3855), 2, 13107), 1, 21845))

\* duplicate_bits: the byte spread over a u16 by masks 0x0F0F, 0x3333 and
\* 0x5555, then y | (y << 1), returned as (left byte, right byte)
duplicate_bits(byte) ==
    BytePair(Spread(Spread(Spread(Spread(byte, 4, 3855), 2, 13107), 1, 21845),
                    1, U16 - 1))

\* each byte of the sprite doubled in width and in height: side 1 is the
\* left half, side 2 the right half
RECURSIVE DoubledSprite(_, _)
DoubledSprite(sprite, side) ==
    IF sprite = << >> THEN << >>
    ELSE << duplicate_bits(Head(sprite))[side],
            duplicate_bits(Head(sprite))[side] >>
         \o DoubledSprite(Tail(sprite), side)

\* the end of execute_DXYN_superchip11_low_res: VF set from both halves
DrawnLowRes(p, display, rows_with_collisions_left, rows_with_collisions_right) ==
    Ok([p EXCEPT
          !.frame_buffer = display,
          !.variable_registers[15] =
              IF rows_with_collisions_left + rows_with_collisions_right > 0
              THEN 1 ELSE 0])

\* the right half drawn onto the display that holds the left half
DrawnLowResRight(p, rows_with_collisions_left, right) ==
    DrawnLowRes(p, right.display, rows_with_collisions_left,
                right.rows_with_collisions)

\* the second half of execute_DXYN_superchip11_low_res: the right half is
\* drawn unless the left half ends the display row
DrawnLowResLeft(p, x, y, sprite, left) ==
    IF (((p.variable_registers[x] * 2) \div 8) + 1)
           % p.frame_buffer.row_size_bytes # 0
    THEN DrawnLowResRight(p, left.rows_with_collisions,
             draw_sprite(left.display, (p.variable_registers[x] * 2) + 8,
                         p.variable_registers[y] * 2,
                         DoubledSprite(sprite, 2), FALSE))
    ELSE DrawnLowRes(p, left.display, left.rows_with_collisions, 0)

execute_DXYN_superchip11_low_res(p, x, y, n) ==
    LET r == read_bytes(p.memory, p.index_register, n) IN
    IF r.outcome # "ok" THEN SpriteReadFailure(p, r)
    ELSE DrawnLowResLeft(p, x, y, r.data,
             draw_sprite(p.frame_buffer, p.variable_registers[x] * 2,
                         p.variable_registers[y] * 2,
                         DoubledSprite(r.data, 1), FALSE))

\* the end of execute_DXY0_superchip11: the display drawn and VF set
DrawnDXY0(p, drawn) ==
    Ok([p EXCEPT
          !.frame_buffer = drawn.display,
          !.variable_registers[15] =
              drawn.rows_with_collisions + drawn.rows_clipped])

execute_DXY0_superchip11(p, x, y) ==
    LET r == read_bytes(p.memory, p.index_register, 32) IN
    IF r.outcome # "ok" THEN SpriteReadFailure(p, r)
    ELSE DrawnDXY0(p, draw_sprite(p.frame_buffer, p.variable_registers[x],
                                  p.variable_registers[y], r.data, TRUE))

execute_DXYN(p, x, y, n) ==
    IF x >= VARIABLE_REGISTER_COUNT \/ y >= VARIABLE_REGISTER_COUNT
       \/ n > MAX_SPRITE_HEIGHT
    THEN Err(p, OperandsOutOfBounds)
    ELSE IF ~IsSuperChip11(p) THEN execute_DXYN_chip8(p, x, y, n)
    ELSE IF p.high_resolution_mode /\ n = 0
    THEN execute_DXY0_superchip11(p, x, y)
    ELSE IF p.high_resolution_mode THEN execute_DXYN_chip8(p, x, y, n)
    ELSE execute_DXYN_superchip11_low_res(p, x, y, n)

\* EX9E (skip_if_pressed) and EXA1: the skip, and the key read is released
KeySkip(p, x, skip_if_pressed) ==
    IF x >= VARIABLE_REGISTER_COUNT THEN Err(p, OperandsOutOfBounds)
    ELSE
    LET key == p.variable_registers[x]
        r == is_key_pressed(p.keystate, key)
        released == KeyState_set_key_status(p.keystate, key, FALSE).keystate
    IN  IF ~r.ok THEN Err(p, r.err)
        ELSE Ok([p EXCEPT
                   !.program_counter =
                       IF r.pressed = skip_if_pressed THEN @ + 2 ELSE @,
                   !.keystate = IF r.pressed THEN released ELSE @])

execute_EX9E(p, x) == KeySkip(p, x, TRUE)

execute_EXA1(p, x) == KeySkip(p, x, FALSE)

execute_FX07(p, x) ==
    IF x >= VARIABLE_REGISTER_COUNT THEN Err(p, OperandsOutOfBounds)
    ELSE Ok([p EXCEPT !.variable_registers[x] = p.delay_timer])

\* FX0A that does not move the program counter back while it waits
execute_FX0A_without_rewind(p, x) ==
    IF x >= VARIABLE_REGISTER_COUNT THEN Err(p, OperandsOutOfBounds)
    ELSE LET keys_pressed == get_keys_pressed(p.keystate) IN
         IF keys_pressed # << >>
         THEN Ok([p EXCEPT !.variable_registers[x] = keys_pressed[1],
                           !.status = "Running"])
         ELSE Ok([p EXCEPT !.status = "WaitingForKeypress"])

execute_FX0A(p, x) ==
    IF x >= VARIABLE_REGISTER_COUNT THEN Err(p, OperandsOutOfBounds)
    ELSE LET keys_pressed == get_keys_pressed(p.keystate) IN
         IF keys_pressed # << >>
         THEN Ok([p EXCEPT !.variable_registers[x] = keys_pressed[1],
                           !.status = "Running"])
         ELSE Ok([p EXCEPT !.program_counter = @ - 2,
                           !.status = "WaitingForKeypress"])

execute_FX15(p, x) ==
    IF x >= VARIABLE_REGISTER_COUNT THEN Err(p, OperandsOutOfBounds)
    ELSE Ok([p EXCEPT !.delay_timer = p.variable_registers[x]])

execute_FX18(p, x) ==
    IF x >= VARIABLE_REGISTER_COUNT THEN Err(p, OperandsOutOfBounds)
    ELSE Ok([p EXCEPT !.sound_timer = p.variable_registers[x]])

execute_FX1E(p, x) ==
    LET result == p.index_register + p.variable_registers[x] IN
    IF x < VARIABLE_REGISTER_COUNT /\ result <= U16 - 1
    THEN Ok([p EXCEPT
               !.variable_registers[15] =
                   IF result <= max_addressable_size(p.memory) THEN 0 ELSE 1,
               !.index_register = result])
    ELSE Err(p, OperandsOutOfBounds)

execute_FX29(p, x) ==
    IF x >= VARIABLE_REGISTER_COUNT THEN Err(p, OperandsOutOfBounds)
    ELSE LET character == p.variable_registers[x] IN
         IF character >= Len(CHIP8_FONT_DATA) \div CHIP8_CHAR_SIZE
         THEN Err(p, OperandsOutOfBounds)
         ELSE Ok([p EXCEPT !.index_register =
                     (character * CHIP8_CHAR_SIZE + font_start_address) % U16])

execute_FX30(p, x) ==
    IF ~IsSuperChip11(p) THEN Err(p, UnknownInstruction(BitOr(61488, x * 256)))
    ELSE IF x >= VARIABLE_REGISTER_COUNT THEN Err(p, OperandsOutOfBounds)
    ELSE LET character == p.variable_registers[x] IN
         IF character >= SUPERCHIP11_FONT_DATA_SIZE \div SUPERCHIP11_CHAR_SIZE
         THEN Err(p, OperandsOutOfBounds)
         ELSE Ok([p EXCEPT !.index_register =
                     (character * SUPERCHIP11_CHAR_SIZE
                      + high_resolution_font_start_address) % U16])

execute_FX33(p, x) ==
    IF x >= VARIABLE_REGISTER_COUNT THEN Err(p, OperandsOutOfBounds)
    ELSE
    LET hex_number == p.variable_registers[x]
        index == p.index_register
        w1 == write_byte(p.memory, index, hex_number \div 100)
        w2 == write_byte(w1.memory, index + 1, (hex_number % 100) \div 10)
        w3 == write_byte(w2.memory, index + 2, hex_number % 10)
    IN  IF w1.outcome # "ok" THEN Err(p, w1.err)
        ELSE IF w2.outcome # "ok"
        THEN Err([p EXCEPT !.memory = w1.memory], w2.err)
        ELSE IF w3.outcome # "ok"
        THEN Err([p EXCEPT !.memory = w2.memory], w3.err)
        ELSE Ok([p EXCEPT !.memory = w3.memory])

\* the index register moved past the registers at every emulation level
IndexAfterTransfer_past_at_every_level(p, x) ==
    (p.index_register + x + 1) % U16

\* the index register after FX55 and FX65, by emulation level
IndexAfterTransfer(p, x) ==
    CASE IsChip8(p) -> (p.index_register + x + 1) % U16
      [] p.emulation_level.level = "Chip48" -> (p.index_register + x) % U16
      [] IsSuperChip11(p) -> p.index_register

\* FX55 that moves the index register only once the registers are written
execute_FX55_moving_the_index_last(p, x) ==
    IF x >= VARIABLE_REGISTER_COUNT THEN Err(p, OperandsOutOfBounds)
    ELSE
    LET w == write_bytes(p.memory, p.index_register,
                         [i \in 1..(x + 1) |-> p.variable_registers[i - 1]])
    IN  IF w.outcome = "panic" THEN Panic(p)
        ELSE IF w.outcome = "err" THEN Err(p, w.err)
        ELSE Ok([p EXCEPT !.memory = w.memory,
                          !.index_register = IndexAfterTransfer(p, x)])

execute_FX55(p, x) ==
    IF x >= VARIABLE_REGISTER_COUNT THEN Err(p, OperandsOutOfBounds)
    ELSE
    LET p1 == [p EXCEPT !.index_register = IndexAfterTransfer(p, x)]
        w == write_bytes(p.memory, p.index_register,
                         [i \in 1..(x + 1) |-> p.variable_registers[i - 1]])
    IN  IF w.outcome = "panic" THEN Panic(p1)
        ELSE IF w.outcome = "err" THEN Err(p1, w.err)
        ELSE Ok([p1 EXCEPT !.memory = w.memory])

execute_FX65(p, x) ==
    IF x >= VARIABLE_REGISTER_COUNT THEN Err(p, OperandsOutOfBounds)
    ELSE
    LET p1 == [p EXCEPT !.index_register = IndexAfterTransfer(p, x)] IN
    IF \E i \in 0..x :
           read_byte(p.memory, p.index_register + i).outcome # "ok"
    THEN Panic(p1)      \* unwrap of the failed read
    ELSE Ok([p1 EXCEPT !.variable_registers =
                [i \in 0..(VARIABLE_REGISTER_COUNT - 1) |->
                    IF i <= x
                    THEN read_byte(p.memory, p.index_register + i).data[1]
                    ELSE @[i]]])

execute_FX75(p, x) ==
    IF ~IsSuperChip11(p) THEN Err(p, UnknownInstruction(BitOr(61557, x * 256)))
    ELSE IF x >= RPL_REGISTER_COUNT THEN Err(p, OperandsOutOfBounds)
    ELSE Ok([p EXCEPT !.rpl_registers =
                [i \in 0..(RPL_REGISTER_COUNT - 1) |->
                    IF i <= x THEN p.variable_registers[i] ELSE @[i]]])

execute_FX85(p, x) ==
    IF ~IsSuperChip11(p) THEN Err(p, UnknownInstruction(BitOr(61573, x * 256)))
    ELSE IF x >= RPL_REGISTER_COUNT THEN Err(p, OperandsOutOfBounds)
    ELSE Ok([p EXCEPT !.variable_registers =
                [i \in 0..(VARIABLE_REGISTER_COUNT - 1) |->
                    IF i <= x THEN p.rpl_registers[i] ELSE @[i]]])

-----------------------------------------------------------------------------
(* The Processor's cycle, src/src/processor.rs *)

\* execute: the handler of the instruction's variant
execute(p, instr, rand) ==
    CASE instr.op = "Op004B" -> execute_004B(p)
      [] instr.op = "Op00CN" -> execute_00CN(p, instr.n)
      [] instr.op = "Op00E0" -> execute_00E0(p)
      [] instr.op = "Op00EE" -> execute_00EE(p)
      [] instr.op = "Op00FB" -> execute_00FB(p)
      [] instr.op = "Op00FC" -> execute_00FC(p)
      [] instr.op = "Op00FD" -> execute_00FD(p)
      [] instr.op = "Op00FE" -> execute_00FE(p)
      [] instr.op = "Op00FF" -> execute_00FF(p)
      [] instr.op = "Op0NNN" -> execute_0NNN(p, instr.nnn)
      [] instr.op = "Op1NNN" -> execute_1NNN(p, instr.nnn)
      [] instr.op = "Op2NNN" -> execute_2NNN(p, instr.nnn)
      [] instr.op = "Op3XNN" -> execute_3XNN(p, instr.x, instr.nn)
      [] instr.op = "Op4XNN" -> execute_4XNN(p, instr.x, instr.nn)
      [] instr.op = "Op5XY0" -> execute_5XY0(p, instr.x, instr.y)
      [] instr.op = "Op6XNN" -> execute_6XNN(p, instr.x, instr.nn)
      [] instr.op = "Op7XNN" -> execute_7XNN(p, instr.x, instr.nn)
      [] instr.op = "Op8XY0" -> execute_8XY0(p, instr.x, instr.y)
      [] instr.op = "Op8XY1" -> execute_8XY1(p, instr.x, instr.y)
      [] instr.op = "Op8XY2" -> execute_8XY2(p, instr.x, instr.y)
      [] instr.op = "Op8XY3" -> execute_8XY3(p, instr.x, instr.y)
      [] instr.op = "Op8XY4" -> execute_8XY4(p, instr.x, instr.y)
      [] instr.op = "Op8XY5" -> execute_8XY5(p, instr.x, instr.y)
      [] instr.op = "Op8XY6" -> execute_8XY6(p, instr.x, instr.y)
      [] instr.op = "Op8XY7" -> execute_8XY7(p, instr.x, instr.y)
      [] instr.op = "Op8XYE" -> execute_8XYE(p, instr.x, instr.y)
      [] instr.op = "Op9XY0" -> execute_9XY0(p, instr.x, instr.y)
      [] instr.op = "OpANNN" -> execute_ANNN(p, instr.nnn)
      [] instr.op = "OpBNNN" -> execute_BNNN(p, instr.nnn)
      [] instr.op = "OpCXNN" -> execute_CXNN(p, instr.x, instr.nn, rand)
      [] instr.op = "OpDXYN" -> execute_DXYN(p, instr.x, instr.y, instr.n)
      [] instr.op = "OpEX9E" -> execute_EX9E(p, instr.x)
      [] instr.op = "OpEXA1" -> execute_EXA1(p, instr.x)
      [] instr.op = "OpFX07" -> execute_FX07(p, instr.x)
      [] instr.op = "OpFX0A" -> execute_FX0A(p, instr.x)
      [] instr.op = "OpFX15" -> execute_FX15(p, instr.x)
      [] instr.op = "OpFX18" -> execute_FX18(p, instr.x)
      [] instr.op = "OpFX1E" -> execute_FX1E(p, instr.x)
      [] instr.op = "OpFX29" -> execute_FX29(p, instr.x)
      [] instr.op = "OpFX30" -> execute_FX30(p, instr.x)
      [] instr.op = "OpFX33" -> execute_FX33(p, instr.x)
      [] instr.op = "OpFX55" -> execute_FX55(p, instr.x)
      [] instr.op = "OpFX65" -> execute_FX65(p, instr.x)
      [] instr.op = "OpFX75" -> execute_FX75(p, instr.x)
      [] instr.op = "OpFX85" -> execute_FX85(p, instr.x)

TIMER_DECREMENT_INTERVAL_MICROSECONDS == 16667

\* decrement_timers that does not look at the clock
decrement_timers_at_every_call(p) ==
    IF BitOr(p.delay_timer, p.sound_timer) > 0
    THEN [p EXCEPT !.last_timer_decrement = 0,
                   !.delay_timer = IF @ > 0 THEN @ - 1 ELSE @,
                   !.sound_timer = IF @ > 0 THEN @ - 1 ELSE @]
    ELSE p

\* decrement_timers.  The Instant last_timer_decrement is kept as what
\* last_timer_decrement.elapsed().as_micros() reads, capped at the interval:
\* Instant::now() makes it 0 and the passing of time makes it grow.
decrement_timers(p) ==
    IF /\ BitOr(p.delay_timer, p.sound_timer) > 0
       /\ p.last_timer_decrement >= TIMER_DECREMENT_INTERVAL_MICROSECONDS
    THEN [p EXCEPT !.last_timer_decrement = 0,
                   !.delay_timer = IF @ > 0 THEN @ - 1 ELSE @,
                   !.sound_timer = IF @ > 0 THEN @ - 1 ELSE @]
    ELSE p

\* What execute_cycle returns together with the Processor it leaves
CycleResult(outcome, p, display_updated, err) ==
    [ outcome |-> outcome, p |-> p, display_updated |-> display_updated,
      err |-> err ]

\* the opcode execute_cycle fetches from processor p, -1 when the fetch fails
FetchedOpcode(p) ==
    LET fetched == read_two_bytes(p.memory, p.program_counter) IN
    IF fetched.outcome = "ok" THEN fetched.data[1] ELSE -1

\* the end of execute_cycle: it spins until the time since the last cycle
\* completed reaches 1_000_000 / processor_speed_hertz microseconds, and
\* stores the instant.  last_execution_cycle_complete keeps the time spun to
spin(p) ==
    [p EXCEPT !.last_execution_cycle_complete =
                  1000000 \div p.processor_speed_hertz]

\* execute_cycle from the execution on: Crashed on an error, or the result
CycleExecuted(executed, display_updated) ==
    IF executed.outcome = "panic"
    THEN CycleResult("panic", executed.p, FALSE, NoError)
    ELSE IF executed.outcome = "err"
    THEN CycleResult("err", [executed.p EXCEPT !.status = "Crashed"], FALSE,
                     executed.err)
    ELSE CycleResult("ok", spin(executed.p), display_updated, NoError)

\* execute_cycle from the decoding on: Crashed on an error, or the execution
CycleDecoded(p, decoded, rand) ==
    IF ~decoded.ok
    THEN CycleResult("err", [p EXCEPT !.status = "Crashed"], FALSE, decoded.err)
    ELSE CycleExecuted(execute(p, decoded.instr, rand),
                       decoded.instr.op \in {"Op00E0", "OpDXYN"})

\* execute_cycle from the fetch on: Crashed on an error, or the program
\* counter moved on by two and the decoding
CycleFetched(p, fetched, rand) ==
    IF fetched.outcome = "panic" THEN CycleResult("panic", p, FALSE, NoError)
    ELSE IF fetched.outcome = "err"
    THEN CycleResult("err", [p EXCEPT !.status = "Crashed"], FALSE, fetched.err)
    ELSE CycleDecoded([p EXCEPT !.program_counter = @ + 2],
                      decode_from(fetched.data[1]), rand)

\* execute_cycle from the timers on
CycleStarted(p, rand) ==
    CycleFetched(p, read_two_bytes(p.memory, p.program_counter), rand)

execute_cycle(p, rand) ==
    CycleStarted(decrement_timers([p EXCEPT !.status = "Running",
                                            !.cycles = @ + 1]),
                 rand)

\* load_font_data: Ok with the font in memory, or the addressing error
load_font_data(p) ==
    IF font_start_address + Len(CHIP8_FONT_DATA) >= program_start_address
    THEN Err(p, MemoryAddressOutOfBoundsBare)
    ELSE LET w == write_bytes(p.memory, font_start_address, CHIP8_FONT_DATA) IN
         IF w.outcome = "panic" THEN Panic(p)
         ELSE IF w.outcome = "err" THEN Err(p, w.err)
         ELSE Ok([p EXCEPT !.memory = w.memory])

\* load_program: Ok with the program in memory, or the addressing error
load_program(p) ==
    IF program_start_address + Len(program) >= max_addressable_size(p.memory)
    THEN Err(p, MemoryAddressOutOfBoundsBare)
    ELSE LET w == write_bytes(p.memory, program_start_address, program) IN
         IF w.outcome = "panic" THEN Panic(p)
         ELSE IF w.outcome = "err" THEN Err(p, w.err)
         ELSE Ok([p EXCEPT !.memory = w.memory])

\* export_state_snapshot that builds a Display instead of cloning the live one
export_state_snapshot_of_new_display(p, verbosity) ==
    IF verbosity = "Minimal"
    THEN [ kind |-> "MinimalSnapshot",
           frame_buffer |-> DisplayNew(p.emulation_level) ]
    ELSE [ kind |-> "ExtendedSnapshot",
           frame_buffer |-> DisplayNew(p.emulation_level),
           stack |-> p.stack,
           memory |-> p.memory,
           program_counter |-> p.program_counter,
           index_register |-> p.index_register,
           variable_registers |-> p.variable_registers,
           delay_timer |-> p.delay_timer,
           sound_timer |-> p.sound_timer,
           cycles |-> p.cycles ]

\* export_state_snapshot
export_state_snapshot(p, verbosity) ==
    IF verbosity = "Minimal"
    THEN [ kind |-> "MinimalSnapshot", frame_buffer |-> p.frame_buffer ]
    ELSE [ kind |-> "ExtendedSnapshot",
           frame_buffer |-> p.frame_buffer,
           stack |-> p.stack,
           memory |-> p.memory,
           program_counter |-> p.program_counter,
           index_register |-> p.index_register,
           variable_registers |-> p.variable_registers,
           delay_timer |-> p.delay_timer,
           sound_timer |-> p.sound_timer,
           cycles |-> p.cycles ]

\* Processor::set_key_status
set_key_status(p, key, pressed) ==
    LET r == KeyState_set_key_status(p.keystate, key, pressed) IN
    IF r.ok THEN Ok([p EXCEPT !.keystate = r.keystate]) ELSE Err(p, r.err)

\* set_processor_speed
set_processor_speed(p, speed_hertz) ==
    [p EXCEPT !.processor_speed_hertz = speed_hertz]

-----------------------------------------------------------------------------
(* The inputs: what the host builds the Processor from and calls it with *)

\* EmulationLevel values
Chip8 ==
    [level |-> "Chip8", memory_limit_2k |-> FALSE, variable_cycle_timing |-> FALSE,
     octo_compatibility_mode |-> FALSE]

Chip8Small == [Chip8 EXCEPT !.memory_limit_2k = TRUE]

Chip8Variable == [Chip8 EXCEPT !.variable_cycle_timing = TRUE]

Chip48 == [Chip8 EXCEPT !.level = "Chip48"]

SuperChip11 == [Chip8 EXCEPT !.level = "SuperChip11"]

SuperChip11Octo == [SuperChip11 EXCEPT !.octo_compatibility_mode = TRUE]

Levels == {Chip8, Chip8Small, Chip48, SuperChip11, SuperChip11Octo}

\* Programs, written for DEFAULT_PROGRAM_ADDRESS
KeyWaitProgram == << 243, 10, 18, 0 >>          \* F30A; 1200
RecurseProgram == << 34, 0, 0, 238 >>           \* 2200; 00EE
CallReturnProgram ==                            \* 2204; 00EE; 2208; 00EE; 00EE
    << 34, 4, 0, 238, 34, 8, 0, 238, 0, 238 >>
UnknownProgram == << 255, 255, 18, 0 >>         \* FFFF; 1200
ExitProgram == << 0, 253, 18, 0 >>              \* 00FD; 1200
JumpOutProgram == << 31, 254 >>                 \* 1FFE
TimerProgram == << 96, 2, 240, 21, 18, 4 >>     \* 6002; F015; 1204

\* 60dd; F015; 61ss; F118; 1208: the delay timer set to dd, the sound timer
\* to ss, and then a loop
CountdownPrograms ==
    { << 96, d, 240, 21, 97, s, 241, 24, 18, 8 >> : d \in 0..2, s \in 0..2 }

\* the programs that set a timer: the only ones for which the clock is read
TimedPrograms == {TimerProgram} \cup CountdownPrograms

\* the microseconds that pass between two looks at the clock: half an
\* interval, rounded down, or a whole one
Waits ==
    { TIMER_DECREMENT_INTERVAL_MICROSECONDS \div 2,
      TIMER_DECREMENT_INTERVAL_MICROSECONDS }

Programs ==
    { KeyWaitProgram, RecurseProgram, CallReturnProgram, UnknownProgram,
      ExitProgram, JumpOutProgram, TimerProgram }

\* the number of cycles the host runs the program for
CycleBudget == IF program = RecurseProgram THEN MaxCycles ELSE MaxShortCycles

\* Options.program_start_address: the default, one that leaves no room for
\* the font, and one that leaves no room for the program
StartAddresses == {DEFAULT_PROGRAM_ADDRESS, 160, 4094}

\* the bytes a SuperChip11 memory may be filled with on construction
Fills == {0, 255}

\* the keys the host reports: two keys of the keypad and one beyond it
HostKeys == {10, 11, 16}

Speeds == {DEFAULT_PROCESSOR_SPEED_HERTZ, COSMAC_VIP_PROCESSOR_SPEED_HERTZ}

\* the bytes the random number generator may yield
RandomBytes == {0, 165}

Verbosities == {"Minimal", "Extended"}

-----------------------------------------------------------------------------
(* The state machine *)

\* the Processor as a record of its fields
Self ==
    [ status |-> status, cycles |-> cycles,
      program_counter |-> program_counter,
      index_register |-> index_register,
      variable_registers |-> variable_registers,
      delay_timer |-> delay_timer, sound_timer |-> sound_timer,
      stack |-> stack, memory |-> memory, keystate |-> keystate,
      processor_speed_hertz |-> processor_speed_hertz,
      emulation_level |-> emulation_level,
      frame_buffer |-> frame_buffer,
      high_resolution_mode |-> high_resolution_mode,
      rpl_registers |-> rpl_registers,
      last_timer_decrement |-> last_timer_decrement,
      last_execution_cycle_complete |-> last_execution_cycle_complete ]

\* the Processor's fields become those of p
Commit(p) ==
    /\ status' = p.status
    /\ cycles' = p.cycles
    /\ program_counter' = p.program_counter
    /\ index_register' = p.index_register
    /\ variable_registers' = p.variable_registers
    /\ delay_timer' = p.delay_timer
    /\ sound_timer' = p.sound_timer
    /\ stack' = p.stack
    /\ memory' = p.memory
    /\ keystate' = p.keystate
    /\ processor_speed_hertz' = p.processor_speed_hertz
    /\ emulation_level' = p.emulation_level
    /\ frame_buffer' = p.frame_buffer
    /\ high_resolution_mode' = p.high_resolution_mode
    /\ rpl_registers' = p.rpl_registers
    /\ last_timer_decrement' = p.last_timer_decrement
    /\ last_execution_cycle_complete' = p.last_execution_cycle_complete

\* what a call returned
Returned(call, outcome, display_updated, err, snapshot) ==
    [ call |-> call, outcome |-> outcome, display_updated |-> display_updated,
      error |-> err, snapshot |-> snapshot ]

\* ChipolataApp before a Processor is instantiated, and the worker thread not
\* yet spawned
NoApp ==
    [ execution_state |-> "Stopped", ui |-> "idle", worker |-> "unspawned",
      crashed |-> FALSE, ui_ready_for_update |-> FALSE,
      requests |-> 0, seen |-> 0,
      read |-> [ type |-> "none", answers |-> 0 ] ]

\* the Processor { .. } that initialise_and_load builds, for the programs and
\* the start addresses the host may pass
ConstructingAt(levels, programs, start_addresses) ==
    /\ emulation_level \in levels
    /\ program \in programs
    /\ program_start_address \in start_addresses
    /\ processor_speed_hertz = DEFAULT_PROCESSOR_SPEED_HERTZ
    /\ overflow_checks \in BOOLEAN
    /\ \E fill \in Fills : memory = MemoryNew(emulation_level, fill)
    /\ frame_buffer = DisplayNew(emulation_level)
    /\ stack = StackNew(emulation_level)
    /\ program_counter = program_start_address
    /\ index_register = 0
    /\ variable_registers = [i \in 0..(VARIABLE_REGISTER_COUNT - 1) |-> 0]
    /\ rpl_registers = [i \in 0..(RPL_REGISTER_COUNT - 1) |-> 0]
    /\ last_timer_decrement = 0
    /\ last_execution_cycle_complete = 0
    /\ delay_timer = 0
    /\ sound_timer = 0
    /\ cycles = 0
    /\ keystate = KeyStateNew
    /\ status = "StartingUp"
    /\ high_resolution_mode = FALSE
    /\ phase = "constructing"
    /\ returned = Returned("none", "none", FALSE, NoError, << >>)
    /\ pressed_in_wait = {}
    /\ open_calls = << >>
    /\ message_to_chipolata = << >>
    /\ message_from_chipolata = << >>
    /\ app = NoApp
    /\ released_in_wait = {}
    /\ exported = << >>

Constructing(programs, start_addresses) ==
    ConstructingAt(Levels, programs, start_addresses)

Init == Constructing(Programs, StartAddresses)

\* initialise_and_load, first half: load_font_data()? and status Initialised
LoadFontData ==
    /\ phase = "constructing" /\ status = "StartingUp"
    /\ LET r == load_font_data(Self) IN
       /\ Commit(IF r.outcome = "ok" THEN [r.p EXCEPT !.status = "Initialised"]
                 ELSE r.p)
       /\ phase' = CASE r.outcome = "ok" -> "constructing"
                     [] r.outcome = "err" -> "failed"
                     [] r.outcome = "panic" -> "aborted"
       /\ returned' = Returned("initialise_and_load", r.outcome, FALSE, r.err,
                               << >>)
    /\ UNCHANGED << exported, program, program_start_address,
                    overflow_checks,
                    pressed_in_wait, released_in_wait, open_calls,
                    channel_vars >>

\* initialise_and_load, second half: load_program()? and status ProgramLoaded
LoadProgram ==
    /\ phase = "constructing" /\ status = "Initialised"
    /\ LET r == load_program(Self) IN
       /\ Commit(IF r.outcome = "ok" THEN [r.p EXCEPT !.status = "ProgramLoaded"]
                 ELSE r.p)
       /\ phase' = CASE r.outcome = "ok" -> "ready"
                     [] r.outcome = "err" -> "failed"
                     [] r.outcome = "panic" -> "aborted"
       /\ returned' = Returned("initialise_and_load", r.outcome, FALSE, r.err,
                               << >>)
    /\ UNCHANGED << exported, program, program_start_address,
                    overflow_checks,
                    pressed_in_wait, released_in_wait, open_calls,
                    channel_vars >>

\* the instruction the next execute_cycle fetches
FetchedInstr == decode_from(FetchedOpcode(Self)).instr

\* the calls still open after an execute_cycle that returned outcome: a 2NNN
\* that succeeded opens a call, made at the program counter with the stack
\* pointer as it was, and a 00EE that succeeded closes the newest one
OpenCallsAfter(outcome) ==
    IF outcome # "ok" THEN open_calls
    ELSE IF FetchedInstr.op = "Op2NNN"
    THEN Append(open_calls, [ made_at |-> program_counter,
                              pointer |-> stack.pointer ])
    ELSE IF FetchedInstr.op = "Op00EE" /\ open_calls # << >>
    THEN SubSeq(open_calls, 1, Len(open_calls) - 1)
    ELSE open_calls

\* what a call of execute_cycle leaves when it returns r
CycleReturned(r) ==
    /\ Commit(r.p)
    /\ phase' = IF r.outcome = "panic" THEN "aborted" ELSE "ready"
    /\ returned' = Returned("execute_cycle", r.outcome, r.display_updated,
                            r.err, << >>)
    /\ pressed_in_wait' =
           IF status = "WaitingForKeypress" /\ r.p.status = "WaitingForKeypress"
           THEN pressed_in_wait ELSE {}
    /\ released_in_wait' =
           IF status = "WaitingForKeypress" /\ r.p.status = "WaitingForKeypress"
           THEN released_in_wait ELSE {}
    /\ open_calls' = OpenCallsAfter(r.outcome)

\* the host calls execute_cycle
ExecuteCycle ==
    /\ phase = "ready" /\ cycles < CycleBudget
    /\ \E rand \in RandomBytes : CycleReturned(execute_cycle(Self, rand))
    /\ UNCHANGED << exported, program, program_start_address,
                    overflow_checks, channel_vars >>

\* the host calls set_key_status(key, pressed)
KeyStatusSet(key, pressed) ==
    LET r == set_key_status(Self, key, pressed)
        waiting == status = "WaitingForKeypress" /\ r.outcome = "ok"
    IN  /\ phase = "ready"
        /\ Commit(r.p)
        /\ returned' = Returned("set_key_status", r.outcome, FALSE, r.err,
                                << >>)
        /\ pressed_in_wait' = IF waiting /\ pressed
                              THEN pressed_in_wait \cup {key}
                              ELSE pressed_in_wait
        /\ released_in_wait' =
               IF waiting /\ ~pressed /\ key \in pressed_in_wait
               THEN released_in_wait \cup {key}
               ELSE released_in_wait
        /\ UNCHANGED << exported, program, program_start_address,
                    overflow_checks,
                        phase, open_calls, channel_vars >>

SetKeyStatus ==
    \E key \in HostKeys, pressed \in BOOLEAN : KeyStatusSet(key, pressed)

\* the host calls set_processor_speed(speed_hertz)
SetProcessorSpeed ==
    /\ phase = "ready"
    /\ \E speed_hertz \in Speeds :
         /\ Commit(set_processor_speed(Self, speed_hertz))
         /\ returned' = Returned("set_processor_speed", "ok", FALSE, NoError,
                                 << >>)
    /\ UNCHANGED << exported, program, program_start_address,
                    overflow_checks, phase,
                    pressed_in_wait, released_in_wait, open_calls,
                    channel_vars >>

\* the host calls export_state_snapshot(verbosity)
StateSnapshotExported(verbosity) ==
    /\ phase = "ready"
    /\ returned' = Returned("export_state_snapshot", "ok", FALSE, NoError,
                            << export_state_snapshot(Self, verbosity) >>)
    /\ Commit(Self)
    /\ UNCHANGED << program, program_start_address, overflow_checks, phase,
                    pressed_in_wait, released_in_wait, open_calls,
                    channel_vars >>

\* the host looks at the snapshot and drops it
ExportStateSnapshot ==
    \E verbosity \in Verbosities :
        StateSnapshotExported(verbosity) /\ UNCHANGED exported

\* the host keeps the snapshot
KeepStateSnapshot ==
    \E verbosity \in Verbosities :
        /\ StateSnapshotExported(verbosity)
        /\ exported' = << export_state_snapshot(Self, verbosity) >>

\* time passes: between two calls, or in the wait that ends execute_cycle
TimePasses ==
    /\ phase = "ready" /\ cycles < CycleBudget
    /\ program \in TimedPrograms
    /\ last_timer_decrement < TIMER_DECREMENT_INTERVAL_MICROSECONDS
    /\ \E waited \in Waits :
         last_timer_decrement' =
             Min(last_timer_decrement + waited,
                 TIMER_DECREMENT_INTERVAL_MICROSECONDS)
    /\ UNCHANGED << status, cycles, program_counter, index_register,
                    variable_registers, delay_timer, sound_timer, stack,
                    memory, keystate, processor_speed_hertz, emulation_level,
                    program, program_start_address, frame_buffer,
                    high_resolution_mode, rpl_registers,
                    last_execution_cycle_complete, phase,
                    overflow_checks, returned, exported, pressed_in_wait,
                    released_in_wait, open_calls,
                    channel_vars >>

Next ==
    \/ LoadFontData
    \/ LoadProgram
    \/ ExecuteCycle
    \/ SetKeyStatus
    \/ SetProcessorSpeed
    \/ ExportStateSnapshot
    \/ TimePasses

Spec == Init /\ [][Next]_vars

-----------------------------------------------------------------------------
(* Properties of the Processor's status *)

Terminal == {"Crashed", "Completed"}

\* the step is a call of execute_cycle: the only call that counts a cycle
CycleStep == cycles' = cycles + 1

\* C1: once the status is Crashed or Completed, no later call (execute_cycle,
\* set_key_status, set_processor_speed, export_state_snapshot) changes it.
C1_TerminalStatusIsKept ==
    [][(status \in Terminal) => (status' = status)]_vars

\* C2: an execute_cycle called while the status is StartingUp, Initialised,
\* Crashed or Completed is rejected with an error and executes no instruction:
\* nothing is fetched, the program counter and the status stay as they were.
C2_CycleRejectedUnlessRunnable ==
    [][CycleStep /\ status \in {"StartingUp", "Initialised"} \cup Terminal
          => /\ returned'.outcome = "err"
             /\ status' = status
             /\ program_counter' = program_counter
             /\ stack' = stack /\ memory' = memory
             /\ variable_registers' = variable_registers]_vars

\* C3: an execute_cycle that fails leaves the status Crashed and returns an
\* error that carries the inner error and an Extended snapshot whose cycles
\* and program_counter are the Processor's own.
C3_FailureCarriesSnapshot ==
    returned.call = "execute_cycle" /\ returned.outcome = "err"
        => /\ status = "Crashed"
           /\ returned.error # NoError
           /\ returned.snapshot # << >>
           /\ returned.snapshot[1].kind = "ExtendedSnapshot"
           /\ returned.snapshot[1].cycles = cycles
           /\ returned.snapshot[1].program_counter = program_counter

\* the status changes the lifecycle allows
Edge(s, t) ==
    \/ s = "StartingUp" /\ t = "Initialised"
    \/ s = "Initialised" /\ t = "ProgramLoaded"
    \/ s = "ProgramLoaded" /\ t = "Running"
    \/ s = "Running" /\ t = "WaitingForKeypress"
    \/ s = "WaitingForKeypress" /\ t = "Running"
    \/ s \notin Terminal /\ t = "Crashed"
    \/ s = "Running" /\ t = "Completed"

\* one call may pass through Running on its way
AllowedChange(s, t) ==
    s = t \/ Edge(s, t) \/ (Edge(s, "Running") /\ Edge("Running", t))

\* C4: the status changes only along StartingUp -> Initialised ->
\* ProgramLoaded -> Running <-> WaitingForKeypress, to Crashed on a fatal
\* error, or to Completed; Completed is entered only by the 00FD instruction
\* under SuperChip11; the first execute_cycle leaves ProgramLoaded.
C4_StatusLifecycle ==
    [][/\ AllowedChange(status, status')
       /\ (status # "Completed" /\ status' = "Completed")
             => /\ emulation_level.level = "SuperChip11"
                /\ FetchedOpcode(Self) = 253
       /\ (CycleStep /\ status = "ProgramLoaded")
             => status' # "ProgramLoaded"]_vars

\* C4 for the calls made on a Processor that has not crashed or completed
C4_LifecycleBeforeTerminal ==
    [][(status \notin Terminal) =>
       /\ AllowedChange(status, status')
       /\ (status' = "Completed")
             => /\ emulation_level.level = "SuperChip11"
                /\ FetchedOpcode(Self) = 253
       /\ (CycleStep /\ status = "ProgramLoaded")
             => status' # "ProgramLoaded"]_vars

-----------------------------------------------------------------------------
(* Properties of the key wait, FX0A *)

NoKeyPressed == get_keys_pressed(keystate) = << >>

\* the smallest key of a non-empty set
Smallest(keys) == CHOOSE k \in keys : \A other \in keys : k <= other

\* C5: while no key is pressed, an execute_cycle applied to FX0A leaves the
\* program counter where it was and the status WaitingForKeypress.
C5_WaitHoldsWithoutKey ==
    [][(CycleStep /\ NoKeyPressed /\ FetchedInstr.op = "OpFX0A")
          => /\ program_counter' = program_counter
             /\ status' = "WaitingForKeypress"
             /\ returned'.outcome = "ok"]_vars

\* C5 has acted: a second cycle ran on FX0A with no key pressed
C5_Witness ==
    /\ status = "WaitingForKeypress" /\ NoKeyPressed
    /\ FetchedInstr.op = "OpFX0A"
    /\ returned.call = "execute_cycle" /\ cycles >= 2
    /\ pressed_in_wait = {}

\* C6: a key pressed during the wait and not yet released does not resolve
\* the wait: the status stays WaitingForKeypress and Vx is not written.
C6_PressAloneDoesNotResolve ==
    [][(/\ CycleStep /\ status = "WaitingForKeypress"
        /\ FetchedInstr.op = "OpFX0A"
        /\ pressed_in_wait # {} /\ released_in_wait = {})
          => /\ status' = "WaitingForKeypress"
             /\ variable_registers' = variable_registers]_vars

\* C7: once a key has been pressed and then released during the wait, the
\* next cycle resolves it: Vx is the smallest released key, the status is
\* Running and the program counter has moved past FX0A.
C7_ReleaseResolves ==
    [][(/\ CycleStep /\ status = "WaitingForKeypress"
        /\ FetchedInstr.op = "OpFX0A"
        /\ released_in_wait # {})
          => /\ status' = "Running"
             /\ variable_registers'[FetchedInstr.x] = Smallest(released_in_wait)
             /\ program_counter' = program_counter + 2]_vars

-----------------------------------------------------------------------------
(* Properties of the stack *)

\* the depth limit of the emulation level: 12 for Chip8, 16 for the others
DepthLimit == IF emulation_level.level = "Chip8" THEN 12 ELSE 16

\* C8: the stack pointer satisfies 0 <= pointer <= depth_limit, whatever
\* pushes and pops (of 2NNN and 00EE) have run.
C8_StackPointerWithinDepth ==
    stack.pointer >= 0 /\ stack.pointer <= DepthLimit

\* C8 has acted: pushes have filled a stack of depth 16
C8_Witness ==
    /\ emulation_level.level # "Chip8"
    /\ stack.pointer = 16
    /\ returned.call = "execute_cycle" /\ returned.outcome = "ok"

\* C9: push succeeds if and only if pointer < depth_limit and fails with
\* PushFullStack otherwise; pop succeeds if and only if pointer > 0 and fails
\* with PopEmptyStack otherwise; the failure is returned by the cycle and
\* the stack is left as it was.
C9_PushPopFailLoudly ==
    [][/\ (CycleStep /\ FetchedInstr.op = "Op2NNN")
            => IF stack.pointer < DepthLimit
               THEN /\ returned'.outcome = "ok"
                    /\ stack'.pointer = stack.pointer + 1
                    /\ stack'.bytes[stack.pointer] = program_counter + 2
                    /\ program_counter' = FetchedInstr.nnn
               ELSE /\ returned'.outcome = "err"
                    /\ returned'.error = PushFullStack
                    /\ status' = "Crashed"
                    /\ stack' = stack
       /\ (CycleStep /\ FetchedInstr.op = "Op00EE")
            => IF stack.pointer > 0
               THEN /\ returned'.outcome = "ok"
                    /\ stack'.pointer = stack.pointer - 1
                    /\ program_counter' = stack.bytes[stack.pointer - 1]
               ELSE /\ returned'.outcome = "err"
                    /\ returned'.error = PopEmptyStack
                    /\ status' = "Crashed"
                    /\ stack' = stack]_vars

\* C9 has acted: a pop from the empty stack has failed
C9_Witness ==
    /\ returned.call = "execute_cycle"
    /\ returned.error = PopEmptyStack
    /\ stack.pointer = 0
    /\ status = "Crashed"

-----------------------------------------------------------------------------
(* The Memory on its own: its operations applied to the addresses and     *)
(* lengths the instruction handlers can pass                              *)

\* the longest run of bytes read or written in one call
MaxLen == 2

\* addresses around both ends of the addressable range and of the u16 range
MemAddresses ==
    { 0, memory.address_limit - 2, memory.address_limit - 1,
      memory.address_limit, memory.address_limit + 1, U16 - 1, U16 + 1 }

\* what a memory operation was called with and what it returned
MemReturned(call, start_address, num_bytes, r) ==
    [ call |-> call, start_address |-> start_address, num_bytes |-> num_bytes,
      outcome |-> r.outcome, data |-> r.data, error |-> r.err,
      before |-> memory ]

MemInit ==
    /\ emulation_level \in Levels
    /\ overflow_checks \in BOOLEAN
    /\ \E fill \in Fills : memory = MemoryNew(emulation_level, fill)
    /\ returned = MemReturned("none", 0, 0, MemResult("ok", memory, << >>, NoError))
    /\ program = << >>
    /\ program_start_address = DEFAULT_PROGRAM_ADDRESS
    /\ processor_speed_hertz = DEFAULT_PROCESSOR_SPEED_HERTZ
    /\ frame_buffer = DisplayNew(emulation_level)
    /\ stack = StackNew(emulation_level)
    /\ program_counter = program_start_address
    /\ index_register = 0
    /\ variable_registers = [i \in 0..(VARIABLE_REGISTER_COUNT - 1) |-> 0]
    /\ rpl_registers = [i \in 0..(RPL_REGISTER_COUNT - 1) |-> 0]
    /\ last_timer_decrement = 0
    /\ last_execution_cycle_complete = 0
    /\ delay_timer = 0
    /\ sound_timer = 0
    /\ cycles = 0
    /\ keystate = KeyStateNew
    /\ status = "StartingUp"
    /\ high_resolution_mode = FALSE
    /\ phase = "constructing"
    /\ pressed_in_wait = {}
    /\ open_calls = << >>
    /\ message_to_chipolata = << >>
    /\ message_from_chipolata = << >>
    /\ app = NoApp
    /\ released_in_wait = {}
    /\ exported = << >>

\* everything but the memory and the value returned
MemFrame ==
    UNCHANGED << status, cycles, program_counter, index_register,
                 variable_registers, delay_timer, sound_timer, stack, keystate,
                 processor_speed_hertz, emulation_level, program,
                 program_start_address, frame_buffer, high_resolution_mode,
                 rpl_registers, last_timer_decrement,
                 last_execution_cycle_complete, phase, overflow_checks,
                 pressed_in_wait, released_in_wait, open_calls,
                 channel_vars, exported >>

MemReadByte ==
    /\ \E address \in MemAddresses :
         LET r == read_byte(memory, address) IN
         /\ memory' = r.memory
         /\ returned' = MemReturned("read_byte", address, 1, r)
    /\ MemFrame

MemWriteByte ==
    /\ \E address \in MemAddresses :
         LET r == write_byte(memory, address, 1) IN
         /\ memory' = r.memory
         /\ returned' = MemReturned("write_byte", address, 1, r)
    /\ MemFrame

MemReadBytes ==
    /\ \E address \in MemAddresses, num_bytes \in 0..MaxLen :
         LET r == read_bytes(memory, address, num_bytes) IN
         /\ memory' = r.memory
         /\ returned' = MemReturned("read_bytes", address, num_bytes, r)
    /\ MemFrame

\* read_two_bytes is called with the program counter only
MemReadTwoBytes ==
    /\ \E address \in {a \in MemAddresses : a <= memory.address_limit + 1} :
         LET r == read_two_bytes(memory, address) IN
         /\ memory' = r.memory
         /\ returned' = MemReturned("read_two_bytes", address, 2, r)
    /\ MemFrame

\* write_bytes is called with at least one byte
MemWriteBytes ==
    /\ \E address \in MemAddresses, num_bytes \in 1..MaxLen :
         LET r == write_bytes(memory, address, [i \in 1..num_bytes |-> i]) IN
         /\ memory' = r.memory
         /\ returned' = MemReturned("write_bytes", address, num_bytes, r)
    /\ MemFrame

MemNext ==
    \/ MemReadByte
    \/ MemWriteByte
    \/ MemReadBytes
    \/ MemReadTwoBytes
    \/ MemWriteBytes

MemSpec == MemInit /\ [][MemNext]_vars

\* the addresses the last memory operation had to touch
Touched ==
    returned.start_address..(returned.start_address + returned.num_bytes - 1)

\* C10: a memory operation succeeds if and only if every address it touches
\* is below address_limit; otherwise it fails with MemoryAddressOutOfBounds
\* reporting an address it was asked to touch at or beyond the limit, and
\* nothing is written; no byte at or beyond the limit is ever written.
C10_MemoryBoundsChecked ==
    returned.call # "none" =>
        /\ returned.outcome = "ok"
               <=> \A a \in Touched : a < memory.address_limit
        /\ returned.outcome # "ok"
               => /\ returned.outcome = "err"
                  /\ returned.error.kind = "MemoryAddressOutOfBounds"
                  /\ returned.error.address \in Touched
                  /\ returned.error.address >= memory.address_limit
                  /\ memory = returned.before
        /\ \A a \in DOMAIN memory.cells : a < memory.address_limit

\* C10 for the operations that touch at least one address below 2^16
C10_NonEmptyInRange ==
    (/\ returned.call # "none" /\ returned.num_bytes > 0
     /\ returned.start_address + returned.num_bytes <= U16) =>
        /\ returned.outcome = "ok"
               <=> \A a \in Touched : a < memory.address_limit
        /\ returned.outcome # "ok"
               => /\ returned.outcome = "err"
                  /\ returned.error.kind = "MemoryAddressOutOfBounds"
                  /\ returned.error.address \in Touched
                  /\ returned.error.address >= memory.address_limit
                  /\ memory = returned.before
        /\ \A a \in DOMAIN memory.cells : a < memory.address_limit

-----------------------------------------------------------------------------
(* The decoder on its own: decode_from applied to every 16-bit opcode *)

\* every variable but the value returned, for a run that uses no Processor
\* but a Display of its own
NoProcessorBut(level, display) ==
    /\ emulation_level = level
    /\ overflow_checks = TRUE
    /\ memory = MemoryNew(emulation_level, 0)
    /\ program = << >>
    /\ program_start_address = DEFAULT_PROGRAM_ADDRESS
    /\ processor_speed_hertz = DEFAULT_PROCESSOR_SPEED_HERTZ
    /\ frame_buffer = display
    /\ stack = StackNew(emulation_level)
    /\ program_counter = program_start_address
    /\ index_register = 0
    /\ variable_registers = [i \in 0..(VARIABLE_REGISTER_COUNT - 1) |-> 0]
    /\ rpl_registers = [i \in 0..(RPL_REGISTER_COUNT - 1) |-> 0]
    /\ last_timer_decrement = 0
    /\ last_execution_cycle_complete = 0
    /\ delay_timer = 0
    /\ sound_timer = 0
    /\ cycles = 0
    /\ keystate = KeyStateNew
    /\ status = "StartingUp"
    /\ high_resolution_mode = FALSE
    /\ phase = "constructing"
    /\ pressed_in_wait = {}
    /\ open_calls = << >>
    /\ message_to_chipolata = << >>
    /\ message_from_chipolata = << >>
    /\ app = NoApp
    /\ released_in_wait = {}
    /\ exported = << >>

NoProcessor == NoProcessorBut(Chip8, DisplayNew(Chip8))

\* every u16
Opcodes == 0..(U16 - 1)

\* the opcode decode_from is called with and what it returned
Decoded(call, opcode, r) ==
    [call |-> call, opcode |-> opcode, ok |-> r.ok, instr |-> r.instr,
     err |-> r.err]

DecodeInit ==
    /\ NoProcessor
    /\ \E opcode \in Opcodes :
         returned = Decoded("none", opcode,
                            [ok |-> FALSE, instr |-> Instr("", 0),
                             err |-> NoError])

\* decode_from is called with the opcode
Decode ==
    /\ returned.call = "none"
    /\ returned' = Decoded("decode_from", returned.opcode,
                           decode_from(returned.opcode))
    /\ UNCHANGED << status, cycles, program_counter, index_register,
                    variable_registers, delay_timer, sound_timer, stack,
                    memory, keystate, processor_speed_hertz, emulation_level,
                    program, program_start_address, frame_buffer,
                    high_resolution_mode, rpl_registers,
                    last_timer_decrement,
                 last_execution_cycle_complete, phase, overflow_checks,
                    pressed_in_wait, released_in_wait, open_calls,
                 channel_vars, exported >>

DecodeNext == Decode

DecodeSpec == DecodeInit /\ [][DecodeNext]_vars

\* the nibbles of each mnemonic, -1 where the mnemonic has an operand
Mnemonics ==
    [ Op004B |-> << 0, 0, 4, 11 >>,  Op00CN |-> << 0, 0, 12, -1 >>,
      Op00E0 |-> << 0, 0, 14, 0 >>,  Op00EE |-> << 0, 0, 14, 14 >>,
      Op00FB |-> << 0, 0, 15, 11 >>, Op00FC |-> << 0, 0, 15, 12 >>,
      Op00FD |-> << 0, 0, 15, 13 >>, Op00FE |-> << 0, 0, 15, 14 >>,
      Op00FF |-> << 0, 0, 15, 15 >>, Op0NNN |-> << 0, -1, -1, -1 >>,
      Op1NNN |-> << 1, -1, -1, -1 >>, Op2NNN |-> << 2, -1, -1, -1 >>,
      Op3XNN |-> << 3, -1, -1, -1 >>, Op4XNN |-> << 4, -1, -1, -1 >>,
      Op5XY0 |-> << 5, -1, -1, 0 >>,  Op6XNN |-> << 6, -1, -1, -1 >>,
      Op7XNN |-> << 7, -1, -1, -1 >>, Op8XY0 |-> << 8, -1, -1, 0 >>,
      Op8XY1 |-> << 8, -1, -1, 1 >>,  Op8XY2 |-> << 8, -1, -1, 2 >>,
      Op8XY3 |-> << 8, -1, -1, 3 >>,  Op8XY4 |-> << 8, -1, -1, 4 >>,
      Op8XY5 |-> << 8, -1, -1, 5 >>,  Op8XY6 |-> << 8, -1, -1, 6 >>,
      Op8XY7 |-> << 8, -1, -1, 7 >>,  Op8XYE |-> << 8, -1, -1, 14 >>,
      Op9XY0 |-> << 9, -1, -1, 0 >>,  OpANNN |-> << 10, -1, -1, -1 >>,
      OpBNNN |-> << 11, -1, -1, -1 >>, OpCXNN |-> << 12, -1, -1, -1 >>,
      OpDXYN |-> << 13, -1, -1, -1 >>, OpEX9E |-> << 14, -1, 9, 14 >>,
      OpEXA1 |-> << 14, -1, 10, 1 >>, OpFX07 |-> << 15, -1, 0, 7 >>,
      OpFX0A |-> << 15, -1, 0, 10 >>, OpFX15 |-> << 15, -1, 1, 5 >>,
      OpFX18 |-> << 15, -1, 1, 8 >>,  OpFX1E |-> << 15, -1, 1, 14 >>,
      OpFX29 |-> << 15, -1, 2, 9 >>,  OpFX30 |-> << 15, -1, 3, 0 >>,
      OpFX33 |-> << 15, -1, 3, 3 >>,  OpFX55 |-> << 15, -1, 5, 5 >>,
      OpFX65 |-> << 15, -1, 6, 5 >>,  OpFX75 |-> << 15, -1, 7, 5 >>,
      OpFX85 |-> << 15, -1, 8, 5 >> ]

Nibbles(opcode) ==
    << opcode \div 4096, (opcode \div 256) % 16, (opcode \div 16) % 16,
       opcode % 16 >>

\* the mnemonics whose fixed nibbles are the opcode's
Matching(opcode) ==
    { op \in DOMAIN Mnemonics :
        \A i \in 1..4 : Mnemonics[op][i] \in {-1, Nibbles(opcode)[i]} }

Operands(op) == Cardinality({i \in 1..4 : Mnemonics[op][i] = -1})

\* the matching mnemonics that fix the most nibbles
Correct(opcode) ==
    { op \in Matching(opcode) :
        \A other \in Matching(opcode) : Operands(op) <= Operands(other) }

\* C11: decode_from succeeds with the one mnemonic whose fixed nibbles are
\* the opcode's (the most specific one) and with the operands cut from the
\* opcode, or, when no mnemonic matches, fails with UnknownInstruction
\* carrying the opcode.
C11_DecodeIsTheReferenceTable ==
    returned.call = "decode_from" =>
        IF Matching(returned.opcode) = {}
        THEN ~returned.ok /\ returned.err = UnknownInstruction(returned.opcode)
        ELSE /\ returned.ok
             /\ Correct(returned.opcode) = {returned.instr.op}
             /\ returned.instr = Instr(returned.instr.op, returned.opcode)

\* C11 for the opcodes other than 5XYN and 9XYN with N above 0
C11_DecodeOutsideFiveAndNine ==
    (/\ returned.call = "decode_from"
     /\ ~(returned.opcode \div 4096 \in {5, 9} /\ returned.opcode % 16 # 0)) =>
        IF Matching(returned.opcode) = {}
        THEN ~returned.ok /\ returned.err = UnknownInstruction(returned.opcode)
        ELSE /\ returned.ok
             /\ Correct(returned.opcode) = {returned.instr.op}
             /\ returned.instr = Instr(returned.instr.op, returned.opcode)

-----------------------------------------------------------------------------
(* Single instructions: short programs that set a few registers, draw a    *)
(* sprite and then run the instruction under test, at every level          *)

\* the bytes loaded into the registers
OperandBytes == {1, 6, 128, 255}

\* 6205; 6309; A050; D235: V2 = 5, V3 = 9, I = the font, digit 0 drawn
Prelude == << 98, 5, 99, 9, 160, 80, 210, 53 >>

\* 00C2, 00FB, 00FC, 00FD, 00FE, 00FF, F330, F275, F285 and 00E0
AfterPrelude ==
    { << 0, 194 >>, << 0, 251 >>, << 0, 252 >>, << 0, 253 >>, << 0, 254 >>,
      << 0, 255 >>, << 243, 48 >>, << 242, 117 >>, << 242, 133 >>,
      << 0, 224 >> }

\* 60aa; 61bb; then 8016 or 801E
ShiftPrograms ==
    { << 96, a, 97, b, 128, op >> : a \in OperandBytes, b \in OperandBytes,
                                    op \in {22, 30} }

\* 60aa; 62bb; B2cc
JumpPrograms ==
    { << 96, a, 98, b, 178, c >> : a \in OperandBytes, b \in OperandBytes,
                                   c \in {0, 254} }

\* 60aa; 61bb; 62cc; A300; Fx55, and A200; Fx65, for x = 0 and x = 2
TransferPrograms ==
    { << 96, a, 97, b, 98, 7, 163, 0, fx, 85 >> :
          a \in OperandBytes, b \in OperandBytes, fx \in {240, 242} }
    \cup { << 162, 0, fx, 101 >> : fx \in {240, 242} }


\* 6Faa; 61bb; then 8011, 8012 or 8013, or 8F11, 8F12 or 8F13
LogicPrograms ==
    { << 111, a, 97, b, x, op >> : a \in OperandBytes, b \in {6, 255},
                                   x \in {128, 143}, op \in {17, 18, 19} }


\* 6Faa; 61bb; then 8F14, 8F15, 8F16, 8F17 or 8F1E: VF is the destination
FlagPrograms ==
    { << 111, a, 97, b, 143, op >> : a \in OperandBytes, b \in {6, 255},
                                     op \in {20, 21, 22, 23, 30} }

\* 607B; AE9F, AFFE or AFFF; then F165, F155, F033 or D002: V0 = 123, the
\* index register at the last addresses of a level, and an access to memory
BoundaryPrograms ==
    { << 96, 123 >> \o index \o op :
          index \in { << 174, 159 >>, << 175, 254 >>, << 175, 255 >> },
          op \in { << 241, 101 >>, << 241, 85 >>, << 240, 51 >>,
                   << 208, 2 >> } }

\* 60vv; AE9F, AFFE or AFFF; F01E: the index register at the last address
\* of a level, and 0, 1 or 2 added to it
IndexAddPrograms ==
    { << 96, v >> \o index \o << 240, 30 >> :
          v \in 0..2,
          index \in { << 174, 159 >>, << 175, 254 >>, << 175, 255 >> } }

\* 1FFF: the next opcode is fetched at the last address of Chip48
FetchOutsideProgram == << 31, 255 >>

\* A200; D001; 6F01; I set or left; D000: a row is drawn, VF is set and a
\* sprite of no rows is drawn with I at 0, 1, 0x200 and at the last addresses
\* of Chip8 and of Chip48
DrawNothingPrograms ==
    { << 162, 0, 208, 1, 111, 1 >> \o index \o << 208, 0 >> :
        index \in { << 160, 0 >>, << 160, 1 >>, << >>, << 174, 159 >>,
                    << 175, 255 >> } }

InstrPrograms ==
    { Prelude \o op : op \in AfterPrelude }
    \cup ShiftPrograms \cup JumpPrograms \cup TransferPrograms
    \cup LogicPrograms \cup FlagPrograms
    \cup BoundaryPrograms \cup {FetchOutsideProgram}
    \cup IndexAddPrograms \cup DrawNothingPrograms

InstrInit == Constructing(InstrPrograms, {DEFAULT_PROGRAM_ADDRESS})

InstrNext ==
    \/ LoadFontData
    \/ LoadProgram
    \/ ExecuteCycle

InstrSpec == InstrInit /\ [][InstrNext]_vars

\* the instructions of SuperChip11 alone
SuperChip11Only ==
    { "Op00CN", "Op00FB", "Op00FC", "Op00FD", "Op00FE", "Op00FF", "OpFX30",
      "OpFX75", "OpFX85" }

\* C12: under Chip8 and Chip48 a cycle that fetches 00CN, 00FB, 00FC, 00FD,
\* 00FE, 00FF, FX30, FX75 or FX85 fails with UnknownInstruction carrying the
\* opcode, not with UnimplementedInstruction, and leaves the registers, the
\* index register, the stack, the memory and the display as they were; the
\* program counter has only moved past the opcode.
C12_UnsupportedIsUnknown ==
    [][(/\ CycleStep /\ emulation_level.level # "SuperChip11"
        /\ FetchedInstr.op \in SuperChip11Only)
          => /\ returned'.outcome = "err"
             /\ returned'.error = UnknownInstruction(FetchedOpcode(Self))
             /\ variable_registers' = variable_registers
             /\ rpl_registers' = rpl_registers
             /\ index_register' = index_register
             /\ stack' = stack
             /\ memory' = memory
             /\ frame_buffer' = frame_buffer
             /\ high_resolution_mode' = high_resolution_mode
             /\ program_counter' = program_counter + 2]_vars

\* C12 has acted: 00C2 has failed under Chip48 with the sprite still drawn
C12_Witness ==
    /\ emulation_level.level = "Chip48"
    /\ returned.call = "execute_cycle"
    /\ returned.error = UnknownInstruction(194)
    /\ frame_buffer.pixels # << >>
    /\ variable_registers[3] = 9

-----------------------------------------------------------------------------
(* Properties of the calls the host makes *)

\* the font occupies font_start_address up to, not including, this address
FontEnd == font_start_address + Len(CHIP8_FONT_DATA)

\* the program occupies program_start_address up to, not including, this one
ProgramEnd == program_start_address + Len(program)

\* initialise_and_load has returned and nothing has been called since
Constructed ==
    returned.call = "initialise_and_load" /\ phase # "constructing"

\* C13: initialise_and_load returns a Processor, with status ProgramLoaded,
\* if and only if the font ends at or before the program's start address and
\* within the addressable memory, and the program ends within the
\* addressable memory; otherwise it returns MemoryAddressOutOfBounds and no
\* Processor.
C13_LoadsIffDataFits ==
    Constructed =>
        IF /\ FontEnd <= program_start_address
           /\ FontEnd <= memory.address_limit
           /\ ProgramEnd <= memory.address_limit
        THEN phase = "ready" /\ status = "ProgramLoaded"
        ELSE /\ phase = "failed"
             /\ returned.error.kind = "MemoryAddressOutOfBounds"

\* C13 with one spare byte after the font and after the program
C13_LoadsIffDataFitsWithRoom ==
    Constructed =>
        IF /\ FontEnd < program_start_address
           /\ FontEnd <= memory.address_limit
           /\ ProgramEnd < memory.address_limit
        THEN phase = "ready" /\ status = "ProgramLoaded"
        ELSE /\ phase = "failed"
             /\ returned.error.kind = "MemoryAddressOutOfBounds"

-----------------------------------------------------------------------------
(* The keys: programs that test a key and wait for one, with the host      *)
(* pressing and releasing keys between the cycles                          *)

\* 600A; E09E; E0A1; F30A and 600B; E0A1; E09E; F30A
KeyPrograms ==
    { << 96, 10, 224, 158, 224, 161, 243, 10 >>,
      << 96, 11, 224, 161, 224, 158, 243, 10 >> }

KeyInit == Constructing(KeyPrograms, {DEFAULT_PROGRAM_ADDRESS})

KeyNext ==
    \/ LoadFontData
    \/ LoadProgram
    \/ ExecuteCycle
    \/ SetKeyStatus

KeySpec == KeyInit /\ [][KeyNext]_vars

\* C14: the keys recorded as pressed change only in a set_key_status call
\* of the host; a cycle, whatever it executes (EX9E, EXA1 and FX0A
\* included), leaves them as they were.
C14_KeysChangeOnlyBySetKeyStatus ==
    [][(keystate' # keystate)
          => (~CycleStep /\ returned'.call = "set_key_status")]_vars

\* C14 for the cycles that execute anything but EX9E and EXA1
C14_KeysKeptOutsideKeyTests ==
    [][(keystate' # keystate /\ returned'.call # "set_key_status")
          => (CycleStep /\ FetchedInstr.op \in {"OpEX9E", "OpEXA1"})]_vars

\* C15: set_key_status called with a key above 15 returns InvalidKey
\* carrying the key and changes nothing: the keys and the status are as
\* they were and the Processor still takes calls.
C15_InvalidKeyIsRejected ==
    [][\A key \in HostKeys, pressed \in BOOLEAN :
          (key > 15 /\ KeyStatusSet(key, pressed))
             => /\ returned'.outcome = "err"
                /\ returned'.error = InvalidKey(key)
                /\ keystate' = keystate
                /\ status' = status
                /\ phase' = "ready"
                /\ program_counter' = program_counter
                /\ cycles' = cycles]_vars

\* C15 has acted: key 16 was rejected while the program waits for a key,
\* and the next cycle can run
C15_Witness ==
    /\ returned.call = "set_key_status"
    /\ returned.error = InvalidKey(16)
    /\ status = "WaitingForKeypress"
    /\ phase = "ready" /\ cycles < CycleBudget

-----------------------------------------------------------------------------
(* Snapshots: a program that draws and then clears, with the host keeping  *)
(* a snapshot taken at any point of the run                                *)

\* 6205; 6309; A050; D235; 00E0
SnapshotPrograms == { Prelude \o << 0, 224 >> }

SnapshotInit == Constructing(SnapshotPrograms, {DEFAULT_PROGRAM_ADDRESS})

SnapshotNext ==
    \/ LoadFontData
    \/ LoadProgram
    \/ ExecuteCycle
    \/ KeepStateSnapshot

SnapshotSpec == SnapshotInit /\ [][SnapshotNext]_vars

\* C16: export_state_snapshot returns the Processor's state of that moment
\* (the frame buffer, and for Extended the stack, memory, registers, timers
\* and cycles) and changes nothing in the Processor; a snapshot the host
\* holds is not changed by any later cycle.
C16_SnapshotIsACopy ==
    [][/\ (returned'.call = "export_state_snapshot")
            => /\ Self' = Self
               /\ returned'.outcome = "ok"
               /\ returned'.snapshot[1].frame_buffer = frame_buffer
               /\ (returned'.snapshot[1].kind = "ExtendedSnapshot")
                     => /\ returned'.snapshot[1].stack = stack
                        /\ returned'.snapshot[1].memory = memory
                        /\ returned'.snapshot[1].program_counter
                               = program_counter
                        /\ returned'.snapshot[1].index_register
                               = index_register
                        /\ returned'.snapshot[1].variable_registers
                               = variable_registers
                        /\ returned'.snapshot[1].delay_timer = delay_timer
                        /\ returned'.snapshot[1].sound_timer = sound_timer
                        /\ returned'.snapshot[1].cycles = cycles
               /\ exported' = returned'.snapshot
       /\ (returned'.call # "export_state_snapshot" /\ exported # << >>)
            => exported' = exported]_vars

\* C16 has acted: the host holds a snapshot with the sprite drawn, taken
\* before the cycle that cleared the display
C16_Witness ==
    /\ exported # << >>
    /\ exported[1].frame_buffer.pixels # << >>
    /\ frame_buffer.pixels = << >>
    /\ returned.call = "execute_cycle"
    /\ exported[1].kind = "ExtendedSnapshot"
    /\ exported[1].cycles < cycles

-----------------------------------------------------------------------------
(* Properties of single instructions *)

\* the instructions that clear, draw on or scroll the display
DisplayInstructions == {"Op00E0", "OpDXYN", "Op00CN", "Op00FB", "Op00FC"}

\* C17: a successful execute_cycle returns true exactly when the instruction
\* it executed touched the display: a clear (00E0), a sprite draw (DXYN) or
\* a scroll (00CN, 00FB, 00FC).
C17_ReportsDisplayTouched ==
    [][(CycleStep /\ returned'.outcome = "ok")
          => (returned'.display_updated
                <=> FetchedInstr.op \in DisplayInstructions)]_vars

\* C17 for the cycles that execute anything but a scroll
C17_ReportsClearAndDraw ==
    [][(/\ CycleStep /\ returned'.outcome = "ok"
        /\ FetchedInstr.op \notin {"Op00CN", "Op00FB", "Op00FC"})
          => (returned'.display_updated
                <=> FetchedInstr.op \in DisplayInstructions)]_vars

\* C18: 8XY6 and 8XYE shift the value of Vy under Chip8 and the value of Vx
\* under Chip48 and SuperChip11: Vx becomes that value shifted by one bit, VF
\* the bit shifted out, and no other register changes (Vy included).
C18_ShiftCopiesOnlyUnderChip8 ==
    [][(CycleStep /\ FetchedInstr.op \in {"Op8XY6", "Op8XYE"})
          => LET x == FetchedInstr.x
                 y == FetchedInstr.y
                 left == FetchedInstr.op = "Op8XYE"
                 shifted == IF emulation_level.level = "Chip8"
                            THEN variable_registers[y]
                            ELSE variable_registers[x]
             IN  /\ returned'.outcome = "ok"
                 /\ x # 15 => variable_registers'[x] =
                        IF left THEN (shifted * 2) % 256 ELSE shifted \div 2
                 /\ variable_registers'[15] =
                        IF left THEN shifted \div 128 ELSE shifted % 2
                 /\ \A i \in 0..14 :
                        i # x => variable_registers'[i] = variable_registers[i]
          ]_vars

\* C18 has acted: under Chip48, 8016 with V0 = 6 and V1 = 255 has halved V0
C18_Witness ==
    /\ emulation_level.level = "Chip48"
    /\ program = << 96, 6, 97, 255, 128, 22 >>
    /\ returned.call = "execute_cycle" /\ returned.outcome = "ok"
    /\ program_counter = DEFAULT_PROGRAM_ADDRESS + 6
    /\ variable_registers[0] = 3
    /\ variable_registers[1] = 255
    /\ variable_registers[15] = 0

\* C19: BNNN sets the program counter to NNN + V0 under Chip8, and to
\* NNN + Vx, x being the high nibble of NNN, under Chip48 and SuperChip11.
C19_JumpWithOffset ==
    [][(CycleStep /\ FetchedInstr.op = "OpBNNN")
          => LET nnn == FetchedInstr.nnn
                 x == IF emulation_level.level = "Chip8" THEN 0
                      ELSE nnn \div 256
             IN  /\ returned'.outcome = "ok"
                 /\ program_counter' = nnn + variable_registers[x]]_vars

\* C19 has acted: under SuperChip11, B2FE with V0 = 1 and V2 = 6 has jumped
\* to 0x2FE + 6
C19_Witness ==
    /\ emulation_level.level = "SuperChip11"
    /\ program = << 96, 1, 98, 6, 178, 254 >>
    /\ returned.call = "execute_cycle" /\ returned.outcome = "ok"
    /\ variable_registers[0] = 1 /\ variable_registers[2] = 6
    /\ program_counter = 772

\* C20: a successful FX55 or FX65 leaves the index register at its old value
\* plus x + 1 under Chip8, plus x under Chip48 and unchanged under
\* SuperChip11.  At every level FX55 writes V0..Vx to the x + 1 bytes of
\* memory from the old index on and touches no other byte and no register;
\* FX65 reads V0..Vx from those bytes and touches no other register and no
\* byte of memory.
C20_TransferMovesIndexByLevel ==
    [][(/\ CycleStep /\ FetchedInstr.op \in {"OpFX55", "OpFX65"}
        /\ returned'.outcome = "ok")
          => LET x == FetchedInstr.x
                 index == index_register
             IN  /\ index_register' =
                        CASE emulation_level.level = "Chip8" -> index + x + 1
                          [] emulation_level.level = "Chip48" -> index + x
                          [] emulation_level.level = "SuperChip11" -> index
                 /\ FetchedInstr.op = "OpFX55" =>
                        /\ \A i \in 0..x : MemoryBytes(memory', index + i)
                                                = variable_registers[i]
                        /\ \A a \in (DOMAIN memory.cells
                                        \cup DOMAIN memory'.cells)
                                       \ (index..(index + x)) :
                               MemoryBytes(memory', a) = MemoryBytes(memory, a)
                        /\ memory'.fill = memory.fill
                        /\ memory'.address_limit = memory.address_limit
                        /\ variable_registers' = variable_registers
                 /\ FetchedInstr.op = "OpFX65" =>
                        /\ \A i \in 0..x : variable_registers'[i]
                                                = MemoryBytes(memory, index + i)
                        /\ \A i \in (x + 1)..15 :
                               variable_registers'[i] = variable_registers[i]
                        /\ memory' = memory]_vars

\* C20 has acted: under Chip48, F255 with I = 0x300 has stored V0 = 6,
\* V1 = 255 and V2 = 7 and moved I by 2
C20_Witness ==
    /\ emulation_level.level = "Chip48"
    /\ program = << 96, 6, 97, 255, 98, 7, 163, 0, 242, 85 >>
    /\ returned.call = "execute_cycle" /\ returned.outcome = "ok"
    /\ program_counter = DEFAULT_PROGRAM_ADDRESS + 10
    /\ index_register = 770
    /\ MemoryBytes(memory, 768) = 6
    /\ MemoryBytes(memory, 769) = 255
    /\ MemoryBytes(memory, 770) = 7

\* C21: 8XY1, 8XY2 and 8XY3 store Vx OR, AND, XOR Vy in Vx.  Under Chip8 VF
\* is 0 afterwards, whatever the destination; under Chip48 and SuperChip11
\* VF keeps its value, or holds the result when it is the destination.  No
\* other register changes.
C21_LogicClearsVFOnlyUnderChip8 ==
    [][(CycleStep /\ FetchedInstr.op \in {"Op8XY1", "Op8XY2", "Op8XY3"})
          => LET x == FetchedInstr.x
                 vx == variable_registers[x]
                 vy == variable_registers[FetchedInstr.y]
                 value == CASE FetchedInstr.op = "Op8XY1" -> BitOr(vx, vy)
                            [] FetchedInstr.op = "Op8XY2" -> BitAnd(vx, vy)
                            [] FetchedInstr.op = "Op8XY3" -> BitXor(vx, vy)
             IN  /\ returned'.outcome = "ok"
                 /\ variable_registers'[15] =
                        IF emulation_level.level = "Chip8" THEN 0
                        ELSE IF x = 15 THEN value
                        ELSE variable_registers[15]
                 /\ x # 15 => variable_registers'[x] = value
                 /\ \A i \in 0..14 :
                        i # x => variable_registers'[i] = variable_registers[i]
          ]_vars

\* C21 has acted: under Chip48, 8011 with VF = 6, V0 = 0 and V1 = 255 has
\* set V0 and kept VF
C21_Witness ==
    /\ emulation_level.level = "Chip48"
    /\ program = << 111, 6, 97, 255, 128, 17 >>
    /\ returned.call = "execute_cycle" /\ returned.outcome = "ok"
    /\ program_counter = DEFAULT_PROGRAM_ADDRESS + 6
    /\ variable_registers[0] = 255
    /\ variable_registers[15] = 6

-----------------------------------------------------------------------------
(* The timers: programs that set both timers and loop, with the clock     *)
(* moving between the cycles                                               *)

TimerInit == Constructing(CountdownPrograms, {DEFAULT_PROGRAM_ADDRESS})

TimerNext ==
    \/ LoadFontData
    \/ LoadProgram
    \/ ExecuteCycle
    \/ TimePasses

TimerSpec == TimerInit /\ [][TimerNext]_vars

\* the timers are due: a whole interval has passed since the last decrement
TimersDue == last_timer_decrement >= TIMER_DECREMENT_INTERVAL_MICROSECONDS

\* C22: a cycle decrements the timers only when a whole interval of 16667
\* microseconds has passed since they were last decremented: then each timer
\* above 0 goes down by exactly 1, a timer at 0 stays at 0, and the interval
\* starts again; otherwise both timers and the time of the last decrement
\* are as they were.  (A cycle that executes FX15 or FX18 then sets its
\* timer to Vx.)
C22_TimersFollowTheClock ==
    [][CycleStep
          => LET decremented(timer) ==
                     IF TimersDue /\ timer > 0 THEN timer - 1 ELSE timer
             IN  /\ FetchedInstr.op # "OpFX15"
                        => delay_timer' = decremented(delay_timer)
                 /\ FetchedInstr.op # "OpFX18"
                        => sound_timer' = decremented(sound_timer)
                 /\ delay_timer' >= 0 /\ sound_timer' >= 0
                 /\ last_timer_decrement' =
                        IF TimersDue /\ (delay_timer > 0 \/ sound_timer > 0)
                        THEN 0 ELSE last_timer_decrement]_vars

\* C22 has acted: the delay timer set to 2 and the sound timer set to 1 have
\* both been counted down to 0, the last decrement being that of this cycle
C22_Witness ==
    /\ program = << 96, 2, 240, 21, 97, 1, 241, 24, 18, 8 >>
    /\ returned.call = "execute_cycle" /\ returned.outcome = "ok"
    /\ cycles >= 5
    /\ delay_timer = 0 /\ sound_timer = 0
    /\ last_timer_decrement = 0

\* the cycles so far have executed 6205, 6309 and A050 and nothing else: no
\* DXYN has been executed since the Processor was built
NoDrawYet ==
    /\ cycles = 3
    /\ Len(program) >= Len(Prelude)
    /\ SubSeq(program, 1, Len(Prelude)) = Prelude

\* C23: under Chip8 a DXYN executed while the vblank latch is Idle, as it is
\* until the first DXYN has been executed, does not draw: it succeeds and
\* leaves every pixel as it was, the sprite being drawn by a later DXYN once
\* a whole interval has passed.
C23_DrawWaitsForVBlank ==
    [][(/\ CycleStep /\ emulation_level.level = "Chip8"
        /\ NoDrawYet /\ FetchedInstr.op = "OpDXYN")
          => /\ returned'.outcome = "ok"
             /\ frame_buffer' = frame_buffer]_vars

\* C23 for the outcome alone: the first DXYN under Chip8 succeeds
C23_FirstDrawSucceeds ==
    [][(/\ CycleStep /\ emulation_level.level = "Chip8"
        /\ NoDrawYet /\ FetchedInstr.op = "OpDXYN")
          => returned'.outcome = "ok"]_vars

-----------------------------------------------------------------------------
(* The Display on its own: draw_sprite called on a display that holds      *)
(* pixels already, and then called again with the same arguments           *)

\* every second row lit, and the two outer pixels of every byte lit
Stripes(d) ==
    WithPixels(d, [row \in DisplayRows(d) |-> [col \in DisplayColumns(d) |->
                      IF row % 2 = 1 THEN 255 ELSE 0]])

Dots(d) ==
    WithPixels(d, [row \in DisplayRows(d) |-> [col \in DisplayColumns(d) |->
                      129]])

\* the displays draw_sprite is called on
PriorDisplays ==
    { DisplayNew(Chip8), Stripes(DisplayNew(Chip8)), Dots(DisplayNew(Chip8)),
      DisplayNew(SuperChip11), Stripes(DisplayNew(SuperChip11)) }

\* the arguments of draw_sprite: coordinates on the display, at its right
\* and bottom edges and beyond them, and sprites of one to four bytes
StartColumns == {0, 4, 60, 63, 68, 124}

StartRows == {0, 30, 31, 33, 63}

Sprites == { << 255 >>, << 240, 0, 15 >>, << 129, 66 >>, << 255, 1, 0, 128 >> }

\* a call of draw_sprite and what it returned: before is the display it was
\* called on and original the display before the first of the two calls
Drawn(call, x_start_pixel, y_start_pixel, sprite, double_width_sprite, r, original) ==
    [ call |-> call, x_start_pixel |-> x_start_pixel,
      y_start_pixel |-> y_start_pixel, sprite |-> sprite,
      double_width_sprite |-> double_width_sprite,
      rows_with_collisions |-> r.rows_with_collisions,
      rows_clipped |-> r.rows_clipped,
      before |-> frame_buffer, original |-> original ]

DisplayInit ==
    /\ \E display \in PriorDisplays :
         NoProcessorBut(IF display.column_size_pixels
                               = HIGH_RES_COLUMN_SIZE_PIXELS
                        THEN SuperChip11 ELSE Chip8,
                        display)
    /\ returned = Drawn("none", 0, 0, << >>, FALSE,
                        [rows_with_collisions |-> 0, rows_clipped |-> 0],
                        frame_buffer)

\* everything but the display and the value returned
DisplayFrame ==
    UNCHANGED << status, cycles, program_counter, index_register,
                 variable_registers, delay_timer, sound_timer, stack, memory,
                 keystate, processor_speed_hertz, emulation_level, program,
                 program_start_address, high_resolution_mode, rpl_registers,
                 last_timer_decrement,
                 last_execution_cycle_complete, phase, overflow_checks,
                 pressed_in_wait, released_in_wait, open_calls,
                 channel_vars, exported >>

\* draw_sprite is called
DrawSprite ==
    /\ returned.call = "none"
    /\ \E x \in StartColumns, y \in StartRows, sprite \in Sprites,
          double \in BOOLEAN :
         LET r == draw_sprite(frame_buffer, x, y, sprite, double) IN
         /\ frame_buffer' = r.display
         /\ returned' = Drawn("draw_sprite", x, y, sprite, double, r,
                              frame_buffer)
    /\ DisplayFrame

\* draw_sprite is called again with the arguments of the first call
DrawSpriteAgain ==
    /\ returned.call = "draw_sprite"
    /\ LET r == draw_sprite(frame_buffer, returned.x_start_pixel,
                            returned.y_start_pixel, returned.sprite,
                            returned.double_width_sprite)
       IN  /\ frame_buffer' = r.display
           /\ returned' = Drawn("draw_sprite_again", returned.x_start_pixel,
                                returned.y_start_pixel, returned.sprite,
                                returned.double_width_sprite, r,
                                returned.original)
    /\ DisplayFrame

DisplayNext ==
    \/ DrawSprite
    \/ DrawSpriteAgain

DisplaySpec == DisplayInit /\ [][DisplayNext]_vars

\* C24: the same sprite drawn twice at the same coordinates leaves the
\* display exactly as it was before the first draw, whatever the sprite, the
\* coordinates and the pixels the display held.
C24_DrawnTwiceRestores ==
    returned.call = "draw_sprite_again" => frame_buffer = returned.original

\* C24 has acted: a sprite drawn across two bytes of a striped display has
\* been drawn a second time, the first draw having changed the display
C24_Witness ==
    /\ returned.call = "draw_sprite_again"
    /\ returned.original = Stripes(DisplayNew(Chip8))
    /\ returned.before # returned.original
    /\ returned.x_start_pixel = 4 /\ returned.y_start_pixel = 30
    /\ returned.sprite = << 240, 0, 15 >>
    /\ ~returned.double_width_sprite

\* the rows of the display the call drew on, and the bytes of a row that the
\* sprite covers
SpriteRows ==
    LET y == returned.y_start_pixel % frame_buffer.column_size_pixels
        height == IF returned.double_width_sprite
                  THEN Len(returned.sprite) \div 2 ELSE Len(returned.sprite)
    IN  y..(Min(y + height, frame_buffer.column_size_pixels) - 1)

SpriteColumns ==
    LET x_byte == (returned.x_start_pixel \div 8) % frame_buffer.row_size_bytes
        width == (IF returned.double_width_sprite THEN 2 ELSE 1)
                 + (IF returned.x_start_pixel % 8 > 0 THEN 1 ELSE 0)
    IN  x_byte..(Min(x_byte + width, frame_buffer.row_size_bytes) - 1)

\* C25 as stated: the collision count of the second draw is the number of
\* rows the sprite covers that hold a lit pixel after the first draw.
C25_SecondDrawCountsLitRows ==
    returned.call = "draw_sprite_again" =>
        returned.rows_with_collisions =
            Cardinality({ row \in SpriteRows :
                \E col \in SpriteColumns :
                    DisplayByte(returned.before, row, col) # 0 })

\* C25, amended: the collision count of the second draw is the number of
\* rows in which the first draw turned on a pixel that was off before it.
C25_SecondDrawCountsRowsTurnedOn ==
    returned.call = "draw_sprite_again" =>
        returned.rows_with_collisions =
            Cardinality({ row \in DisplayRows(frame_buffer) :
                \E col \in DisplayColumns(frame_buffer) :
                    BitAnd(DisplayByte(returned.before, row, col),
                           255 - DisplayByte(returned.original, row, col))
                        # 0 })

\* C25 has acted: on a striped display the sprite 240, 0, 15 was drawn twice
\* at (4, 30); the first draw lit pixels in row 30 alone, row 31 was lit
\* already, and the second draw reports one collision
C25_Witness ==
    /\ returned.call = "draw_sprite_again"
    /\ returned.original = Stripes(DisplayNew(Chip8))
    /\ returned.x_start_pixel = 4 /\ returned.y_start_pixel = 30
    /\ returned.sprite = << 240, 0, 15 >>
    /\ ~returned.double_width_sprite
    /\ DisplayByte(returned.before, 31, 0) = 255
    /\ returned.rows_with_collisions = 1

\* C26: draw_sprite draws the rows of the sprite that fall on the display
\* from the start row down to the bottom edge, and no others: the rows beyond
\* the bottom edge are dropped, every other row of the display, those at the
\* top included, is as it was, and the number of clipped rows returned is 0.
C26_RowsBeyondBottomAreDropped ==
    returned.call \in {"draw_sprite", "draw_sprite_again"} =>
        LET size == frame_buffer.row_size_bytes
                    * frame_buffer.column_size_pixels
            x_byte == (returned.x_start_pixel \div 8)
                      % frame_buffer.row_size_bytes
            x_offset == returned.x_start_pixel % 8
            step == IF returned.double_width_sprite THEN 2 ELSE 1
            y == returned.y_start_pixel % frame_buffer.column_size_pixels
        IN  /\ returned.rows_clipped = 0
            /\ DOMAIN frame_buffer.pixels \subseteq 0..(size - 1)
            /\ \A row \in DisplayRows(frame_buffer) \ SpriteRows :
                   \A col \in DisplayColumns(frame_buffer) :
                       DisplayByte(frame_buffer, row, col)
                           = DisplayByte(returned.before, row, col)
            /\ \A row \in SpriteRows :
                   DisplayByte(frame_buffer, row, x_byte)
                       = BitXor(DisplayByte(returned.before, row, x_byte),
                                returned.sprite[(row - y) * step + 1]
                                    \div (2 ^ x_offset))

\* C26 has acted: the two-row sprite 129, 66 was drawn at (0, 31) on a
\* striped low-resolution display: the first row is drawn on the lit row 31
\* with a collision, the second row is dropped, row 0 is still blank
C26_Witness ==
    /\ returned.call = "draw_sprite"
    /\ returned.original = Stripes(DisplayNew(Chip8))
    /\ returned.x_start_pixel = 0 /\ returned.y_start_pixel = 31
    /\ returned.sprite = << 129, 66 >>
    /\ ~returned.double_width_sprite
    /\ returned.rows_with_collisions = 1
    /\ returned.rows_clipped = 0
    /\ DisplayByte(frame_buffer, 31, 0) = 126
    /\ DisplayByte(frame_buffer, 0, 0) = 0

\* C27: the number of collisions draw_sprite returns is the number of rows
\* it drew in which a pixel that was lit has been turned off, a pixel lit
\* before the draw on which the sprite had a bit set; such a row counts once,
\* however many of its bytes collide, and no other row counts.
C27_CollisionsAreRowsTurnedOff ==
    returned.call \in {"draw_sprite", "draw_sprite_again"} =>
        returned.rows_with_collisions =
            Cardinality({ row \in SpriteRows :
                \E col \in DisplayColumns(frame_buffer) :
                    LET existing == DisplayByte(returned.before, row, col)
                        incoming ==
                            BitXor(existing,
                                   DisplayByte(frame_buffer, row, col))
                    IN  BitAnd(existing, incoming) # 0 })

\* C27 has acted: the sprite 255 drawn at (4, 31) on a striped display turns
\* pixels off in two bytes of the lit row 31 and counts one collision
C27_Witness ==
    /\ returned.call = "draw_sprite"
    /\ returned.original = Stripes(DisplayNew(Chip8))
    /\ returned.x_start_pixel = 4 /\ returned.y_start_pixel = 31
    /\ returned.sprite = << 255 >>
    /\ ~returned.double_width_sprite
    /\ DisplayByte(frame_buffer, 31, 0) = 240
    /\ DisplayByte(frame_buffer, 31, 1) = 15
    /\ returned.rows_with_collisions = 1

-----------------------------------------------------------------------------
(* More properties of the key wait *)

\* C28: a key that is held down already when FX0A is first executed does not
\* resolve the wait and is not reported: the cycle succeeds, the status
\* becomes WaitingForKeypress and no register is written.
C28_HeldKeysDoNotResolve ==
    [][(/\ CycleStep /\ status # "WaitingForKeypress"
        /\ FetchedInstr.op = "OpFX0A" /\ ~NoKeyPressed)
          => /\ returned'.outcome = "ok"
             /\ status' = "WaitingForKeypress"
             /\ variable_registers' = variable_registers]_vars

\* C28 for the outcome alone: FX0A first executed with a key held succeeds
C28_HeldKeysAreAccepted ==
    [][(/\ CycleStep /\ status # "WaitingForKeypress"
        /\ FetchedInstr.op = "OpFX0A" /\ ~NoKeyPressed)
          => returned'.outcome = "ok"]_vars

-----------------------------------------------------------------------------
(* More properties of single instructions *)

\* the carry, borrow or shifted-out flag of the instruction about to be
\* executed, from the registers before it
FlagOfFetched ==
    LET vx == variable_registers[FetchedInstr.x]
        vy == variable_registers[FetchedInstr.y]
        shifted == IF emulation_level.level = "Chip8" THEN vy ELSE vx
    IN  CASE FetchedInstr.op = "Op8XY4" -> IF vx + vy > 255 THEN 1 ELSE 0
          [] FetchedInstr.op = "Op8XY5" -> IF vx >= vy THEN 1 ELSE 0
          [] FetchedInstr.op = "Op8XY7" -> IF vy >= vx THEN 1 ELSE 0
          [] FetchedInstr.op = "Op8XY6" -> shifted % 2
          [] FetchedInstr.op = "Op8XYE" -> shifted \div 128

\* C29: when VF is the destination of 8XY4, 8XY5, 8XY6, 8XY7 or 8XYE, VF
\* holds the carry, borrow or shifted-out flag afterwards, not the result of
\* the arithmetic: the flag is written after the result.
C29_FlagIsWrittenLast ==
    [][(/\ CycleStep /\ FetchedInstr.x = 15
        /\ FetchedInstr.op \in {"Op8XY4", "Op8XY5", "Op8XY6", "Op8XY7",
                                "Op8XYE"})
          => /\ returned'.outcome = "ok"
             /\ variable_registers'[15] = FlagOfFetched]_vars

\* C29 for the shifts 8XY6 and 8XYE alone
C29_ShiftFlagIsWrittenLast ==
    [][(/\ CycleStep /\ FetchedInstr.x = 15
        /\ FetchedInstr.op \in {"Op8XY6", "Op8XYE"})
          => /\ returned'.outcome = "ok"
             /\ variable_registers'[15] = FlagOfFetched]_vars

\* the instructions that switch the resolution
ResolutionSwitches == {"Op00FE", "Op00FF"}

\* C30: under SuperChip11 the instructions 00FE and 00FF set the resolution,
\* and they clear the display when octo_compatibility_mode is set and leave
\* every pixel of the frame buffer as it was when it is not
C30_SwitchClearsOnlyInOctoMode ==
    [][(/\ CycleStep /\ emulation_level.level = "SuperChip11"
        /\ FetchedInstr.op \in ResolutionSwitches)
          => /\ returned'.outcome = "ok"
             /\ high_resolution_mode' = (FetchedInstr.op = "Op00FF")
             /\ frame_buffer' = IF emulation_level.octo_compatibility_mode
                                  THEN clear(frame_buffer)
                                  ELSE frame_buffer]_vars

\* the code's behaviour: 00FE and 00FF leave the frame buffer as it was
C30_SwitchKeepsEveryPixel ==
    [][(/\ CycleStep /\ emulation_level.level = "SuperChip11"
        /\ FetchedInstr.op \in ResolutionSwitches)
          => /\ returned'.outcome = "ok"
             /\ high_resolution_mode' = (FetchedInstr.op = "Op00FF")
             /\ frame_buffer' = frame_buffer]_vars

-----------------------------------------------------------------------------
(* The pacing of execute_cycle: programs of instructions whose cost in     *)
(* micro-cycles is a constant, at fixed and at variable cycle timing       *)

\* 60aa; 7001; 8014 or 8010; 00E0; 1200
PacePrograms ==
    { << 96, a, 112, 1, 128, op, 0, 224, 18, 0 >> : a \in {1, 255},
                                                    op \in {16, 20} }

PaceLevels == {Chip8, Chip8Variable, Chip48, SuperChip11}

PaceInit ==
    ConstructingAt(PaceLevels, PacePrograms, {DEFAULT_PROGRAM_ADDRESS})

PaceNext ==
    \/ LoadFontData
    \/ LoadProgram
    \/ ExecuteCycle
    \/ SetProcessorSpeed

PaceSpec == PaceInit /\ [][PaceNext]_vars

\* the instructions that return the same number of micro-cycles at every call
ConstantCost ==
    { "Op00E0", "Op00EE", "Op1NNN", "Op2NNN", "Op6XNN", "Op7XNN", "Op8XY0",
      "Op8XY1", "Op8XY2", "Op8XY3", "Op8XY4", "Op8XY5", "Op8XY6", "Op8XY7",
      "Op8XYE", "OpANNN", "OpCXNN", "OpFX07", "OpFX0A", "OpFX15", "OpFX18",
      "OpFX29" }

\* const CYCLES of the handler of the instruction
CYCLES(op) ==
    CASE op = "Op00E0" -> 64
      [] op = "Op00EE" -> 50
      [] op \in {"Op1NNN", "Op8XY0", "OpANNN"} -> 80
      [] op = "Op2NNN" -> 94
      [] op = "Op6XNN" -> 74
      [] op \in {"Op7XNN", "OpFX07", "OpFX15", "OpFX18"} -> 78
      [] op \in {"Op8XY1", "Op8XY2", "Op8XY3", "Op8XY4", "Op8XY5", "Op8XY6",
                 "Op8XY7", "Op8XYE"} -> 112
      [] op = "OpCXNN" -> 104
      [] op = "OpFX0A" -> 19072
      [] op = "OpFX29" -> 88

\* C31: a cycle that succeeds is paced to 1,000,000 / processor_speed_hertz
\* microseconds at fixed timing, whatever the instruction, and to
\* micro_cycles x 8 x 1,000,000 / processor_speed_hertz microseconds at the
\* variable timing of Chip8, micro_cycles being the cost of the instruction
C31_CycleIsPacedByMode ==
    [][(/\ CycleStep /\ returned'.outcome = "ok"
        /\ FetchedInstr.op \in ConstantCost)
          => last_execution_cycle_complete' =
                 IF /\ emulation_level.level = "Chip8"
                    /\ emulation_level.variable_cycle_timing
                 THEN (CYCLES(FetchedInstr.op) * 8 * 1000000)
                          \div processor_speed_hertz
                 ELSE 1000000 \div processor_speed_hertz]_vars

\* the code's behaviour: every cycle that succeeds is paced by the speed alone
C31_CycleIsPacedBySpeed ==
    [][(CycleStep /\ returned'.outcome = "ok")
          => last_execution_cycle_complete' =
                 1000000 \div processor_speed_hertz]_vars

-----------------------------------------------------------------------------
(* The Display scrolled: scroll_display_down called on a display that      *)
(* holds pixels, or on which a sprite has just been drawn                  *)

\* the numbers of rows the display is scrolled by
ScrollDistances == {0, 1, 2, 7, 15}

\* a call of scroll_display_down: before is the display it was called on
Scrolled(n) == [ call |-> "scroll_display_down", n |-> n, before |-> frame_buffer ]

\* scroll_display_down is called
ScrollDisplayDown ==
    /\ returned.call \in {"none", "draw_sprite"}
    /\ \E n \in ScrollDistances :
         /\ frame_buffer' = scroll_display_down(frame_buffer, n)
         /\ returned' = Scrolled(n)
    /\ DisplayFrame

ScrollNext ==
    \/ DrawSprite
    \/ ScrollDisplayDown

ScrollSpec == DisplayInit /\ [][ScrollNext]_vars

\* C32: after scroll_display_down(n) every row r >= n holds what row r - n
\* held before the call, and the n rows at the top hold nothing but zeros
C32_RowsMoveDownByN ==
    returned.call = "scroll_display_down"
        => \A row \in DisplayRows(frame_buffer),
              col \in DisplayColumns(frame_buffer) :
             DisplayByte(frame_buffer, row, col) =
                 IF row < returned.n THEN 0
                 ELSE DisplayByte(returned.before, row - returned.n, col)

\* a striped display with a sprite on it has been scrolled by seven rows
C32_Witness ==
    /\ returned.call = "scroll_display_down"
    /\ returned.n = 7
    /\ returned.before # Stripes(DisplayNew(SuperChip11))
    /\ DisplayByte(returned.before, 1, 0) = 255
    /\ DisplayByte(frame_buffer, 8, 0) = 255
    /\ DisplayByte(frame_buffer, 1, 0) = 0
    /\ returned.before.column_size_pixels = HIGH_RES_COLUMN_SIZE_PIXELS

-----------------------------------------------------------------------------
(* duplicate_bits on its own, called with every byte                       *)

\* the byte duplicate_bits is called with and the pair it returned
Duplicated(call, byte, pair) == [call |-> call, byte |-> byte, pair |-> pair]

BitsInit ==
    /\ NoProcessor
    /\ \E byte \in 0..(U8 - 1) : returned = Duplicated("none", byte, << 0, 0 >>)

\* duplicate_bits is called with the byte
DuplicateBits ==
    /\ returned.call = "none"
    /\ returned' = Duplicated("duplicate_bits", returned.byte,
                              duplicate_bits(returned.byte))
    /\ DisplayFrame /\ UNCHANGED frame_buffer

BitsNext == DuplicateBits

BitsSpec == BitsInit /\ [][BitsNext]_vars

\* bit i of a value, bit 0 being the lowest
BitOf(value, i) == (value \div (2 ^ i)) % 2

\* C33: in the pair duplicate_bits returns, read as sixteen bits with the
\* left byte first, bit i of the byte stands at the adjacent places 2i and
\* 2i + 1, so the order of the bits is kept; 0b10110101 gives
\* (0b11001111, 0b00110011), 0xFF gives (0xFF, 0xFF) and 0 gives (0, 0)
C33_EveryBitTwice ==
    returned.call = "duplicate_bits"
        => /\ returned.pair \in (0..(U8 - 1)) \X (0..(U8 - 1))
           /\ \A i \in 0..7 :
                LET both == returned.pair[1] * U8 + returned.pair[2] IN
                /\ BitOf(both, 2 * i) = BitOf(returned.byte, i)
                /\ BitOf(both, 2 * i + 1) = BitOf(returned.byte, i)
           /\ (returned.byte = 181) => (returned.pair = << 207, 51 >>)
           /\ (returned.byte = 255) => (returned.pair = << 255, 255 >>)
           /\ (returned.byte = 0) => (returned.pair = << 0, 0 >>)

\* duplicate_bits has been called with 0b10110101
C33_Witness ==
    /\ returned.call = "duplicate_bits"
    /\ returned.byte = 181
    /\ returned.pair = << 207, 51 >>

-----------------------------------------------------------------------------
(* Accesses to memory at the end of the addressable range *)

\* the instruction about to be executed, once its opcode has been fetched,
\* reads or writes an address outside addressable memory
InstructionAccessOutside ==
    /\ FetchedOpcode(Self) >= 0
    /\ \/ /\ FetchedInstr.op \in {"OpFX55", "OpFX65"}
          /\ index_register + FetchedInstr.x >= memory.address_limit
       \/ /\ FetchedInstr.op = "OpFX33"
          /\ index_register + 2 >= memory.address_limit
       \/ /\ FetchedInstr.op = "OpDXYN" /\ FetchedInstr.n > 0
          /\ index_register + FetchedInstr.n - 1 >= memory.address_limit

\* the opcode itself lies outside addressable memory
FetchOutside == program_counter + 1 >= memory.address_limit

\* C34: an execute_cycle whose opcode fetch, or whose FX65, FX55, FX33 or
\* DXYN, reaches outside addressable memory returns the error
\* MemoryAddressOutOfBounds, and no execute_cycle ends in a panic
C34_AccessOutsideIsAnError ==
    [][CycleStep
          => /\ returned'.outcome # "panic"
             /\ (FetchOutside \/ InstructionAccessOutside)
                    => /\ returned'.outcome = "err"
                       /\ returned'.error.kind = "MemoryAddressOutOfBounds"]_vars

\* C34 without FX65: the fetch, FX55, FX33 and DXYN outside memory return
\* the error
C34_AccessOutsideButFX65 ==
    [][(/\ CycleStep
        /\ FetchOutside \/ (/\ InstructionAccessOutside
                            /\ FetchedInstr.op # "OpFX65"))
          => /\ returned'.outcome = "err"
             /\ returned'.error.kind = "MemoryAddressOutOfBounds"]_vars

-----------------------------------------------------------------------------
(* What an instruction that fails leaves behind *)

\* an execute_cycle that fetched its opcode and returned an error
InstructionFails ==
    /\ CycleStep
    /\ FetchedOpcode(Self) >= 0
    /\ returned'.outcome = "err"

\* C35 as stated: an instruction that fails leaves registers, index register,
\* memory, stack and display exactly as they were before it executed
C35_FailureChangesNothing ==
    [][InstructionFails
          => /\ variable_registers' = variable_registers
             /\ index_register' = index_register
             /\ memory' = memory
             /\ stack' = stack
             /\ frame_buffer' = frame_buffer]_vars

\* the decimal digit of a byte that FX33 stores at I + place
DigitAt(byte, place) ==
    CASE place = 0 -> byte \div 100
      [] place = 1 -> (byte % 100) \div 10
      [] place = 2 -> byte % 10

\* C35: an instruction that fails leaves registers, stack and display as
\* they were, and index register and memory too, but for two cases: a
\* failing FX55 has moved the index register as its level prescribes, and a
\* failing FX33 has written the digits that lie inside addressable memory
C35_FailureChangesIndexOrDigitsOnly ==
    [][InstructionFails
          => /\ variable_registers' = variable_registers
             /\ stack' = stack
             /\ frame_buffer' = frame_buffer
             /\ index_register' =
                    IF FetchedInstr.op = "OpFX55"
                    THEN CASE emulation_level.level = "Chip8"
                                  -> index_register + FetchedInstr.x + 1
                           [] emulation_level.level = "Chip48"
                                  -> index_register + FetchedInstr.x
                           [] emulation_level.level = "SuperChip11"
                                  -> index_register
                    ELSE index_register
             /\ IF FetchedInstr.op = "OpFX33"
                THEN /\ memory'.address_limit = memory.address_limit
                     /\ \A a \in 0..(memory.address_limit - 1) :
                          MemoryBytes(memory', a) =
                              IF a \in index_register..(index_register + 2)
                              THEN DigitAt(variable_registers[FetchedInstr.x],
                                           a - index_register)
                              ELSE MemoryBytes(memory, a)
                ELSE memory' = memory]_vars

\* FX55 has failed under Chip8 with the index register moved from 0xE9F,
\* or FX33 has failed under Chip48 with two digits of 123 written
C35_Witness ==
    /\ status = "Crashed" /\ cycles = 3
    /\ returned.error.kind = "MemoryAddressOutOfBounds"
    /\ \/ /\ program = << 96, 123, 174, 159, 241, 85 >>
          /\ emulation_level = Chip8
          /\ index_register = 3745
       \/ /\ program = << 96, 123, 175, 254, 240, 51 >>
          /\ emulation_level = Chip48
          /\ MemoryBytes(memory, 4094) = 1
          /\ MemoryBytes(memory, 4095) = 2

-----------------------------------------------------------------------------
(* Subroutine calls and returns *)

\* the newest of the calls not yet returned from
MatchingCall == open_calls[Len(open_calls)]

\* C36: calls and returns are last-in first-out: a 2NNN that succeeds pushes
\* the address of the instruction after it and jumps to NNN, and a 00EE that
\* succeeds returns to the address after the newest call not yet returned
\* from, with the stack pointer as it was before that call
C36_CallsReturnLastInFirstOut ==
    [][(CycleStep /\ returned'.outcome = "ok")
          => /\ (FetchedInstr.op = "Op2NNN")
                    => /\ program_counter' = FetchedInstr.nnn
                       /\ stack'.pointer = stack.pointer + 1
                       /\ stack'.bytes[stack.pointer] = program_counter + 2
             /\ (FetchedInstr.op = "Op00EE")
                    => /\ open_calls # << >>
                       /\ program_counter' = MatchingCall.made_at + 2
                       /\ stack'.pointer = MatchingCall.pointer]_vars

\* a call made inside a call: both have returned, the inner one to 0x206 and
\* the outer one to 0x202
C36_Witness ==
    /\ program = CallReturnProgram
    /\ cycles = 4 /\ returned.outcome = "ok"
    /\ program_counter = 514
    /\ stack.pointer = 0 /\ open_calls = << >>
    /\ stack.bytes[0] = 514 /\ stack.bytes[1] = 518

-----------------------------------------------------------------------------
(* FX1E at the end of addressable memory *)

\* I + Vx of the FX1E about to be executed
IndexSum == index_register + variable_registers[FetchedInstr.x]

\* C37: FX1E sets the index register to I + Vx and VF to 1 exactly when that
\* address lies outside addressable memory, to 0 when it is a valid address;
\* a sum above 0xFFFF is the error OperandsOutOfBounds
C37_FlagIffOutsideMemory ==
    [][(CycleStep /\ FetchedInstr.op = "OpFX1E")
          => IF IndexSum > U16 - 1
             THEN /\ returned'.outcome = "err"
                  /\ returned'.error.kind = "OperandsOutOfBounds"
             ELSE /\ returned'.outcome = "ok"
                  /\ index_register' = IndexSum
                  /\ variable_registers'[15] =
                         IF IndexSum >= memory.address_limit THEN 1 ELSE 0]_vars

\* the code's behaviour: VF is 1 exactly when I + Vx is above the size of
\* addressable memory, one more than its last address
C37_FlagIffAboveTheSize ==
    [][(CycleStep /\ FetchedInstr.op = "OpFX1E")
          => IF IndexSum > U16 - 1
             THEN /\ returned'.outcome = "err"
                  /\ returned'.error.kind = "OperandsOutOfBounds"
             ELSE /\ returned'.outcome = "ok"
                  /\ index_register' = IndexSum
                  /\ variable_registers'[15] =
                         IF IndexSum > memory.address_limit THEN 1 ELSE 0]_vars

-----------------------------------------------------------------------------
(* The host application: the UI thread and the worker thread that owns the
   Processor, talking over two channels (src/src/main.rs) *)

\* programs whose first, second or third cycle fails: the first two with an
\* error, the last with a panic in FX65
ChannelPrograms ==
    { UnknownProgram, << 96, 0, 255, 255 >>, << 96, 123, 174, 159, 241, 101 >> }

\* the events the UI may have sent that the worker has not yet taken
MaxQueued == 2

\* the updates the UI asks for
MaxRequests == 3

\* the key and the speed of the UI's events
ChannelKey == 1
ChannelSpeed == COSMAC_VIP_PROCESSOR_SPEED_HERTZ

\* MessageToChipolata; request numbers the ReadyForStateSnapshot requests
MessageToChipolata(type, key, pressed, new_speed, request) ==
    [ type |-> type, key |-> key, pressed |-> pressed, new_speed |-> new_speed,
      request |-> request ]

\* MessageFromChipolata; answers is the number of the last request the worker
\* had taken when it sent the message
MessageFromChipolata(type, answers) == [ type |-> type, answers |-> answers ]

\* nothing read from the worker
NoMessage == MessageFromChipolata("none", 0)

\* the worker thread is running its loop
WorkerAlive == app.worker \in {"draining", "cycle", "report"}

\* the UI has dropped its ends of the channels
ReceiverDropped == app.execution_state = "Stopped" \/ app.ui = "panicked"

\* the UI thread is between two calls of update
UIIdle ==
    /\ app.worker # "unspawned"
    /\ app.ui = "idle"
    /\ app.execution_state # "Stopped"

\* the Processor is left alone
ProcessorFrame ==
    UNCHANGED << status, cycles, program_counter, index_register,
                 variable_registers, delay_timer, sound_timer, stack, memory,
                 keystate, processor_speed_hertz, emulation_level, program,
                 program_start_address, frame_buffer, high_resolution_mode,
                 rpl_registers, last_timer_decrement,
                 last_execution_cycle_complete, phase, overflow_checks,
                 returned, exported, pressed_in_wait, released_in_wait,
                 open_calls >>

\* what the worker's calls of the Processor leave alone
WorkerFrame ==
    UNCHANGED << program, program_start_address, overflow_checks, exported >>

\* a call of the Processor other than execute_cycle leaves it as p
WorkerCalled(p) ==
    /\ Commit(p)
    /\ UNCHANGED << phase, returned, pressed_in_wait, released_in_wait,
                    open_calls >>

\* instantiate_chipolata, after initialise_and_load: the channels are created,
\* the worker thread is spawned
InstantiateChipolata ==
    /\ phase = "ready" /\ app.worker = "unspawned"
    /\ app' = [app EXCEPT !.execution_state = "Running", !.worker = "draining"]
    /\ UNCHANGED << message_to_chipolata, message_from_chipolata >>
    /\ ProcessorFrame

\* message_to_chipolata_tx.send(m) where the error is absorbed: the message is
\* lost when the worker has dropped its receiver
SentAbsorbed(m) ==
    message_to_chipolata' =
        IF WorkerAlive THEN Append(message_to_chipolata, m)
        ELSE message_to_chipolata

\* message_to_chipolata_tx.send(m).unwrap(), after which the UI is as a: the
\* UI thread panics when the worker has dropped its receiver
SentUnwrapped(m, a) ==
    IF WorkerAlive
    THEN /\ message_to_chipolata' = Append(message_to_chipolata, m)
         /\ app' = a
    ELSE /\ message_to_chipolata' = message_to_chipolata
         /\ app' = [app EXCEPT !.ui = "panicked"]

\* request_chipolata_update, the first half of update
RequestChipolataUpdate ==
    /\ UIIdle /\ app.requests < MaxRequests
    /\ SentAbsorbed(MessageToChipolata("ReadyForStateSnapshot", 0, FALSE, 0,
                                       app.requests + 1))
    /\ app' = [app EXCEPT !.ui = "receiving", !.requests = @ + 1,
                          !.read = NoMessage]
    /\ UNCHANGED message_from_chipolata
    /\ ProcessorFrame

\* stop_chipolata: Terminate is sent and both ends are dropped
stop_chipolata(a) ==
    /\ SentUnwrapped(MessageToChipolata("Terminate", 0, FALSE, 0, 0),
                     [a EXCEPT !.execution_state = "Stopped"])
    /\ message_from_chipolata' = << >>

\* process_chipolata_update, the second half of update: recv() blocks until a
\* message is there or the worker has dropped its sender
ProcessChipolataUpdate ==
    /\ app.ui = "receiving"
    /\ IF message_from_chipolata # << >>
       THEN LET message == Head(message_from_chipolata)
                a == [app EXCEPT !.ui = "idle", !.read = message]
            IN  IF message.type = "StateSnapshotReport"
                THEN /\ app' = a
                     /\ message_from_chipolata' = Tail(message_from_chipolata)
                     /\ UNCHANGED message_to_chipolata
                ELSE stop_chipolata(a)
       ELSE /\ ~WorkerAlive
            /\ app' = [app EXCEPT !.ui = "idle"]
            /\ UNCHANGED << message_to_chipolata, message_from_chipolata >>
    /\ ProcessorFrame

\* send_key_press_event
SendKeyPressEvent ==
    /\ UIIdle /\ Len(message_to_chipolata) < MaxQueued
    /\ \E pressed \in BOOLEAN :
         SentAbsorbed(MessageToChipolata("KeyPressEvent", ChannelKey, pressed,
                                         0, 0))
    /\ UNCHANGED << message_from_chipolata, app >>
    /\ ProcessorFrame

\* set_chipolata_speed
SetChipolataSpeed ==
    /\ UIIdle /\ Len(message_to_chipolata) < MaxQueued
    /\ SentUnwrapped(MessageToChipolata("SetProcessorSpeed", 0, FALSE,
                                        ChannelSpeed, 0), app)
    /\ UNCHANGED message_from_chipolata
    /\ ProcessorFrame

\* pause_chipolata
PauseChipolata ==
    /\ UIIdle /\ Len(message_to_chipolata) < MaxQueued
    /\ app.execution_state = "Running"
    /\ SentUnwrapped(MessageToChipolata("Pause", 0, FALSE, 0, 0),
                     [app EXCEPT !.execution_state = "Paused"])
    /\ UNCHANGED message_from_chipolata
    /\ ProcessorFrame

\* resume_chipolata
ResumeChipolata ==
    /\ UIIdle /\ Len(message_to_chipolata) < MaxQueued
    /\ app.execution_state = "Paused"
    /\ SentUnwrapped(MessageToChipolata("Resume", 0, FALSE, 0, 0),
                     [app EXCEPT !.execution_state = "Running"])
    /\ UNCHANGED message_from_chipolata
    /\ ProcessorFrame

\* the user stops the emulation
StopChipolata ==
    /\ UIIdle
    /\ stop_chipolata(app)
    /\ ProcessorFrame

\* the worker takes the next message of try_iter()
WorkerTakes ==
    /\ app.worker = "draining" /\ message_to_chipolata # << >>
    /\ LET message == Head(message_to_chipolata)
           key == set_key_status(Self, message.key, message.pressed)
       IN  CASE message.type = "KeyPressEvent" ->
                  /\ WorkerCalled(key.p)
                  /\ message_to_chipolata' =
                         IF key.outcome = "ok" THEN Tail(message_to_chipolata)
                         ELSE << >>
                  /\ app' = IF key.outcome = "ok" THEN app
                            ELSE [app EXCEPT !.worker = "panicked"]
              [] message.type = "ReadyForStateSnapshot" ->
                  /\ WorkerCalled(Self)
                  /\ message_to_chipolata' = Tail(message_to_chipolata)
                  /\ app' = [app EXCEPT !.ui_ready_for_update = TRUE,
                                        !.seen = message.request]
              [] message.type = "SetProcessorSpeed" ->
                  /\ WorkerCalled(set_processor_speed(Self, message.new_speed))
                  /\ message_to_chipolata' = Tail(message_to_chipolata)
                  /\ app' = app
              [] message.type \in {"Pause", "Resume"} ->
                  /\ WorkerCalled(Self)
                  /\ message_to_chipolata' = Tail(message_to_chipolata)
                  /\ app' = app
              [] message.type = "Terminate" ->
                  /\ WorkerCalled(Self)
                  /\ message_to_chipolata' = << >>
                  /\ app' = [app EXCEPT !.worker = "terminated"]
    /\ UNCHANGED message_from_chipolata
    /\ WorkerFrame

\* try_iter() finds the channel empty
WorkerDrained ==
    /\ app.worker = "draining" /\ message_to_chipolata = << >>
    /\ app' = [app EXCEPT !.worker = "cycle"]
    /\ UNCHANGED << message_to_chipolata, message_from_chipolata >>
    /\ ProcessorFrame

\* message_from_chipolata_tx.send(m).unwrap(), after which the worker is as a:
\* the worker panics when the UI has dropped its receiver
WorkerSent(m, a) ==
    IF ReceiverDropped
    THEN /\ message_from_chipolata' = message_from_chipolata
         /\ message_to_chipolata' = << >>
         /\ app' = [a EXCEPT !.worker = "panicked"]
    ELSE /\ message_from_chipolata' = Append(message_from_chipolata, m)
         /\ message_to_chipolata' = message_to_chipolata
         /\ app' = a

\* the worker runs a cycle unless one has failed before, and reports a failure
WorkerCycle ==
    /\ app.worker = "cycle"
    /\ IF app.crashed
       THEN /\ app' = [app EXCEPT !.worker = "report"]
            /\ UNCHANGED << message_to_chipolata, message_from_chipolata >>
            /\ ProcessorFrame
       ELSE \E rand \in RandomBytes : \E r \in {execute_cycle(Self, rand)} :
              /\ CycleReturned(r)
              /\ WorkerFrame
              /\ CASE r.outcome = "ok" ->
                        /\ app' = [app EXCEPT !.worker = "report"]
                        /\ UNCHANGED << message_to_chipolata,
                                        message_from_chipolata >>
                   [] r.outcome = "err" ->
                        WorkerSent(MessageFromChipolata("ErrorReport",
                                                        app.seen),
                                   [app EXCEPT !.worker = "report",
                                               !.crashed = TRUE])
                   [] r.outcome = "panic" ->
                        /\ app' = [app EXCEPT !.worker = "panicked"]
                        /\ message_to_chipolata' = << >>
                        /\ UNCHANGED message_from_chipolata

\* a state snapshot is due in this iteration of the worker's loop
ReportDue_in_every_iteration(a) == TRUE

ReportDue(a) == a.ui_ready_for_update

\* the worker sends the state snapshot if one was asked for, and starts its
\* loop again
WorkerReport ==
    /\ app.worker = "report"
    /\ LET again == [app EXCEPT !.worker = "draining",
                                !.ui_ready_for_update = FALSE]
       IN  IF ReportDue(app)
           THEN WorkerSent(MessageFromChipolata("StateSnapshotReport",
                                                app.seen), again)
           ELSE /\ app' = again
                /\ UNCHANGED << message_to_chipolata, message_from_chipolata >>
    /\ ProcessorFrame

ChannelInit == ConstructingAt({Chip8}, ChannelPrograms, {DEFAULT_PROGRAM_ADDRESS})

ChannelNext ==
    \/ LoadFontData
    \/ LoadProgram
    \/ InstantiateChipolata
    \/ RequestChipolataUpdate
    \/ ProcessChipolataUpdate
    \/ SendKeyPressEvent
    \/ SetChipolataSpeed
    \/ PauseChipolata
    \/ ResumeChipolata
    \/ StopChipolata
    \/ WorkerTakes
    \/ WorkerDrained
    \/ WorkerCycle
    \/ WorkerReport

ChannelSpec == ChannelInit /\ [][ChannelNext]_vars

\* the worker thread is scheduled as long as it lives, and the UI thread
\* returns from recv() once it can. WorkerCycle is enabled exactly when the
\* worker is at its cycle and every WorkerCycle step leaves that position, so
\* weak fairness of WorkerCycle is []<>(app.worker # "cycle")
ChannelFairSpec ==
    /\ ChannelSpec
    /\ WF_vars(WorkerTakes) /\ WF_vars(WorkerDrained) /\ WF_vars(WorkerReport)
    /\ []<>(app.worker # "cycle")
    /\ WF_vars(ProcessChipolataUpdate)

\* the UI is blocked in recv()
Receiving == app.ui = "receiving"

\* the UI has read a message from the worker for its latest request
Answered == app.ui = "idle" /\ app.read # NoMessage

\* the UI's recv() returns a message
ReadsMessage ==
    /\ Receiving
    /\ app'.ui = "idle"
    /\ app'.read # NoMessage

\* the UI's recv() returns a state snapshot
ReadsSnapshot ==
    /\ Receiving
    /\ app'.ui = "idle"
    /\ app'.read.type = "StateSnapshotReport"

OneOfEachKind ==
    /\ Len(message_from_chipolata) <= 2
    /\ Len(message_from_chipolata) = 2 =>
           message_from_chipolata[1].type # message_from_chipolata[2].type

C38_TwoMessages ==
    /\ Len(message_from_chipolata) = 2
    /\ Receiving

-----------------------------------------------------------------------------
(* DXYN with N = 0 *)

\* the next execute_cycle executes DXY0 outside the high-resolution mode of
\* SuperChip11
DrawsNothing ==
    /\ FetchedOpcode(Self) >= 0
    /\ FetchedInstr.op = "OpDXYN" /\ FetchedInstr.n = 0
    /\ ~(IsSuperChip11(Self) /\ high_resolution_mode)

\* the cycle succeeded, VF is 0 and the display is as it was
NothingDrawn ==
    /\ returned'.outcome = "ok"
    /\ variable_registers'[15] = 0
    /\ frame_buffer' = frame_buffer

\* C39: DXYN with N = 0 outside SuperChip11 high-resolution mode succeeds for
\* every index register value inside addressable memory: it draws nothing,
\* sets VF to 0 and leaves the display unchanged
C39_DrawingNoRowsSucceeds ==
    [][(CycleStep /\ DrawsNothing /\ index_register < memory.address_limit)
          => NothingDrawn]_vars

\* the code's behaviour: so it is for every index register value inside
\* addressable memory but 0
C39_DrawingNoRowsSucceedsAboveZero ==
    [][(/\ CycleStep /\ DrawsNothing
        /\ index_register \in 1..(memory.address_limit - 1))
          => NothingDrawn]_vars

-----------------------------------------------------------------------------
(* draw_sprite at the right edge of the display *)

\* the byte of the display row the sprite of the last call starts in
StartByte ==
    (returned.x_start_pixel \div 8) % frame_buffer.row_size_bytes

\* the display rows the sprite of the last call covers before clipping
TargetRows ==
    LET y_start == returned.y_start_pixel % frame_buffer.column_size_pixels
        sprite_height == IF returned.double_width_sprite
                         THEN Len(returned.sprite) \div 2
                         ELSE Len(returned.sprite)
    IN  y_start..(y_start + sprite_height - 1)

\* the bytes of the display the last call changed, as << row, col >>
ChangedBytes ==
    { at \in DisplayRows(frame_buffer) \X DisplayColumns(frame_buffer) :
        DisplayByte(frame_buffer, at[1], at[2])
            # DisplayByte(returned.before, at[1], at[2]) }

\* C40: sprite bits that would extend past the last byte of a display row are
\* discarded: draw_sprite modifies only bytes of the target rows at or to the
\* right of the starting byte, and never writes into the first byte of the
\* same row or into any byte of another row
C40_BitsPastTheRowAreDiscarded ==
    returned.call \in {"draw_sprite", "draw_sprite_again"} =>
        /\ \A at \in ChangedBytes :
              /\ at[1] \in TargetRows
              /\ at[2] >= StartByte
              /\ at[2] <= StartByte + 2
        /\ \A i \in DOMAIN frame_buffer.pixels :
              i < frame_buffer.column_size_pixels * frame_buffer.row_size_bytes

\* C40 has acted: a row of eight pixels was drawn at column 60 of a display
\* of 64 columns that held pixels; the four pixels that fit changed the last
\* byte of the row, and the first bytes of that row and of the next are as
\* they were
C40_Witness ==
    /\ returned.call = "draw_sprite"
    /\ frame_buffer.row_size_bytes = 8
    /\ returned.x_start_pixel = 60 /\ returned.y_start_pixel = 0
    /\ returned.sprite = << 255 >> /\ ~returned.double_width_sprite
    /\ returned.before.pixels # << >>
    /\ ChangedBytes = { << 0, 7 >> }
    /\ DisplayByte(frame_buffer, 0, 7)
           = BitXor(DisplayByte(returned.before, 0, 7), 15)

====
